---------------------------- MODULE Spec2Model ----------------------------
(***************************************************************************)
(* Durable graph execution of the travel-planning agents.                  *)
(*                                                                         *)
(* The graphs, the routing functions, the node handlers and the entry      *)
(* points (run, resume_from_feedback) are those of                         *)
(*   src/travel-agent/src/agents/travel_agent.py          (agent "lg")     *)
(*   src/travel-agent/src/workflow/pure_langgraph_travel_agent.py ("pure") *)
(* The step loop that drives a compiled graph (schedule, execute, merge,   *)
(* checkpoint, route, interrupt) is not part of the repository: it is the  *)
(* engine the graphs are compiled for, and it is modelled as section 4.2   *)
(* to 4.3 of the specification describe it.                                *)
(***************************************************************************)
EXTENDS Integers, Sequences, FiniteSets, TLC

\* ------------------------------------------------------------- bounds
MaxCalls == 2       \* invocations of one task handler per session
MaxSteps == 24      \* node executions per session
MaxRuns  == 3       \* entry-point calls (run / resume / continue) per session
MaxChain == 3       \* checkpoints the concurrent writers put on the durable chain
MaxHistory == 2     \* get_state_history calls recorded per session
MaxObjects == 12    \* container objects allocated in the ownership model
MaxEntries == 2     \* entries a handler appends to one container

Writers        == {"w1", "w2", "w3"}

Sessions       == {"s1", "s2"}
Requests       == {"Testland", "Paris"}
ErrMsgs        == {"boom"}
FeedbackValues == {"looks great"}
Modes          == {"ok", "fail", "flaky"}

\* ------------------------------------------------------------- names
FLIGHT == "flight_search"
ACCOM  == "accommodation_search"
ITIN   == "itinerary_creation"
Tasks  == {FLIGHT, ACCOM, ITIN}

END == "__end__"

VARIABLES
    agent,            \* which agent class was constructed: "lg" | "pure" | "multi"
    active,           \* the session (thread) ids the callers use
    durable,          \* the durable checkpoint backend under concurrent writers
    interrupt_before, \* the steps compiled as interrupt-before
    behaviour,        \* the task handlers plugged in: task -> mode
    store,            \* checkpointer: session -> chain of checkpoints, oldest first
    pc,               \* session -> "idle" | "running"
    cur,              \* session -> state the running step loop holds
    pending,          \* session -> steps scheduled and not yet returned
    deltas,           \* session -> the returned steps in completion order: the step,
                      \*   what its task handler returned, the state it returned
    result,           \* session -> what the last entry-point call returned
    lastOp,           \* session -> the last entry point called
    runs,             \* session -> entry-point calls so far
    log,              \* session -> the steps executed so far, in order
    calls,            \* session -> task -> invocations of the task handler
    errd,             \* session -> tasks whose handler has returned an error
    resumed,          \* session -> a resume has been requested
    events,           \* session -> the step events of the current call, in order
    probe,            \* a routing function evaluated on a completion state
    undeclared,       \* the symbols the built graph's conditional edges leave out
    built,            \* a graph declaration handed to Build, and what Build returned
    history,          \* session -> what the get_state_history calls returned
    heap,             \* the container objects of the session states, and who holds them
    booking,          \* one run of the accommodation booking pipeline
    threads           \* the hash of each request string, and the requests run on
                      \*   the thread id derived from it

\* what no entry point and no step of the step loop changes
fixed == <<agent, interrupt_before, behaviour, active, durable, probe,
          undeclared, built, history, heap, booking, threads>>

vars == <<fixed, store, pc, cur, pending, deltas, result, lastOp, runs, log,
          calls, errd, resumed, events>>

\* ------------------------------------------------------------- state
NoErrors == [k \in {} |-> "boom"]

Msg(a, act) == [agent |-> a, action |-> act]

\* class TravelPlanningState: the defaults of a state built from a request
TravelPlanningState(req) ==
    [request               |-> req,
     flight_details        |-> "none",
     accommodation_details |-> "none",
     itinerary             |-> "none",
     agent_messages        |-> <<>>,
     completed_tasks       |-> <<>>,
     errors                |-> NoErrors,
     user_feedback         |-> "none",
     parallel_tasks        |-> <<>>]

Range(seq) == {seq[i] : i \in 1..Len(seq)}

Put(f, k, v) == [x \in (DOMAIN f) \cup {k} |-> IF x = k THEN v ELSE f[x]]


AppendIfAbsent(seq, x) == IF x \in Range(seq) THEN seq ELSE Append(seq, x)

\* ------------------------------------------------ agent "lg": the graph
\* LangGraphTravelAgent._build_coordination_workflow: add_node
LgNodes == {"supervisor", "flight_coordinator", "accommodation_coordinator",
            "itinerary_coordinator", "result_aggregator", "human_feedback"}

\* set_entry_point
LgEntry == "supervisor"

\* Mutant: the itinerary symbol also schedules the aggregator.
LgSymbolTargets_itinerary_and_aggregator ==
    [flight_search        |-> {"flight_coordinator"},
     accommodation_search |-> {"accommodation_coordinator"},
     create_itinerary     |-> {"itinerary_coordinator", "result_aggregator"},
     get_feedback         |-> {"human_feedback"},
     complete             |-> {"result_aggregator"},
     end                  |-> {END}]

\* Mutant: the two search symbols mapped to each other's coordinator.
LgSymbolTargets_swapped ==
    [flight_search        |-> {"accommodation_coordinator"},
     accommodation_search |-> {"flight_coordinator"},
     create_itinerary     |-> {"itinerary_coordinator"},
     get_feedback         |-> {"human_feedback"},
     complete             |-> {"result_aggregator"},
     end                  |-> {END}]

\* add_conditional_edges("supervisor", _route_from_supervisor, {...})
LgSymbolTargets ==
    [flight_search        |-> {"flight_coordinator"},
     accommodation_search |-> {"accommodation_coordinator"},
     create_itinerary     |-> {"itinerary_coordinator"},
     get_feedback         |-> {"human_feedback"},
     complete             |-> {"result_aggregator"},
     end                  |-> {END}]

\* Mutant: the aggregator's edge names a step that is not registered.
LgEdges_dangling ==
    [flight_coordinator        |-> {"supervisor"},
     accommodation_coordinator |-> {"supervisor"},
     itinerary_coordinator     |-> {"supervisor"},
     human_feedback            |-> {"supervisor"},
     result_aggregator         |-> {"finalizer"}]

\* Mutant: the accommodation coordinator flows on to the itinerary
\* coordinator instead of back to the supervisor.
LgEdges_accommodation_to_itinerary ==
    [flight_coordinator        |-> {"supervisor"},
     accommodation_coordinator |-> {"itinerary_coordinator"},
     itinerary_coordinator     |-> {"supervisor"},
     human_feedback            |-> {"supervisor"},
     result_aggregator         |-> {END}]

\* add_edge: the coordinators and human_feedback flow back to the supervisor,
\* result_aggregator flows to END
LgEdges ==
    [flight_coordinator        |-> {"supervisor"},
     accommodation_coordinator |-> {"supervisor"},
     itinerary_coordinator     |-> {"supervisor"},
     human_feedback            |-> {"supervisor"},
     result_aggregator         |-> {END}]

\* Mutant: the workflow compiled without interrupt_before.
LgInterruptBefore_none == {}

\* compile(..., interrupt_before=["human_feedback"])
LgInterruptBefore == {"human_feedback"}

\* Mutant: the itinerary branch without its "not yet completed" test.
route_from_supervisor_no_itinerary_test(state) ==
    LET completed == Range(state.completed_tasks) IN
    IF completed = {} THEN "flight_search"
    ELSE IF FLIGHT \in completed /\ ACCOM \notin completed
         THEN "accommodation_search"
    ELSE IF {FLIGHT, ACCOM} \subseteq completed
         THEN "create_itinerary"
    ELSE IF Cardinality(completed) >= 3
         THEN IF state.user_feedback = "none" THEN "get_feedback" ELSE "complete"
    ELSE "end"

\* Mutant: with feedback present the supervisor ends the run directly instead
\* of routing to the aggregation step.
route_from_supervisor_skips_aggregation(state) ==
    LET completed == Range(state.completed_tasks) IN
    IF completed = {} THEN "flight_search"
    ELSE IF FLIGHT \in completed /\ ACCOM \notin completed
         THEN "accommodation_search"
    ELSE IF {FLIGHT, ACCOM} \subseteq completed /\ ITIN \notin completed
         THEN "create_itinerary"
    ELSE IF Cardinality(completed) >= 3
         THEN IF state.user_feedback = "none" THEN "get_feedback" ELSE "end"
    ELSE "end"

\* Mutant: with all three tasks completed the routing never asks for feedback.
route_from_supervisor_ignores_feedback(state) ==
    LET completed == Range(state.completed_tasks) IN
    IF completed = {} THEN "flight_search"
    ELSE IF FLIGHT \in completed /\ ACCOM \notin completed THEN "accommodation_search"
    ELSE IF {FLIGHT, ACCOM} \subseteq completed /\ ITIN \notin completed THEN "create_itinerary"
    ELSE IF Cardinality(completed) >= 3 THEN "complete"
    ELSE "end"

\* LangGraphTravelAgent._route_from_supervisor
route_from_supervisor(state) ==
    LET completed == Range(state.completed_tasks) IN
    IF completed = {} THEN "flight_search"
    ELSE IF FLIGHT \in completed /\ ACCOM \notin completed
         THEN "accommodation_search"
    ELSE IF {FLIGHT, ACCOM} \subseteq completed /\ ITIN \notin completed
         THEN "create_itinerary"
    ELSE IF Cardinality(completed) >= 3
         THEN IF state.user_feedback = "none" THEN "get_feedback" ELSE "complete"
    ELSE "end"

\* ---------------------------------------------- agent "lg": the handlers
\* A task handler (flight_agent.run, accommodation_agent.run,
\* itinerary_agent.run) is opaque: it returns "ok" or raises with a message.

\* LangGraphTravelAgent._supervisor
supervisor(state) ==
    [state EXCEPT !.agent_messages = Append(@, Msg("supervisor", "coordinating"))]

\* LangGraphTravelAgent._flight_coordinator: whether it reaches flight_agent.run
flight_coordinator_calls(state) == FLIGHT \notin Range(state.completed_tasks)

\* Mutant: the error is recorded under the step's name, not the task's.
flight_coordinator_step_key(state, outcome) ==
    IF ~flight_coordinator_calls(state) THEN state
    ELSE IF outcome = "ok"
    THEN [state EXCEPT
            !.flight_details  = "flight",
            !.completed_tasks = Append(@, FLIGHT),
            !.agent_messages  = Append(@, Msg("flight_coordinator", "completed"))]
    ELSE [state EXCEPT
            !.errors         = Put(@, "flight_coordinator", outcome),
            !.agent_messages = Append(@, Msg("flight_coordinator", "error"))]

\* Mutant: the flight search is recorded as completed without its details.
flight_coordinator_without_details(state, outcome) ==
    IF ~flight_coordinator_calls(state) THEN state
    ELSE IF outcome = "ok"
    THEN [state EXCEPT
            !.completed_tasks = Append(@, FLIGHT),
            !.agent_messages  = Append(@, Msg("flight_coordinator", "completed"))]
    ELSE [state EXCEPT
            !.errors         = Put(@, FLIGHT, outcome),
            !.agent_messages = Append(@, Msg("flight_coordinator", "error"))]

\* LangGraphTravelAgent._flight_coordinator
flight_coordinator(state, outcome) ==
    IF ~flight_coordinator_calls(state) THEN state
    ELSE IF outcome = "ok"
    THEN [state EXCEPT
            !.flight_details  = "flight",
            !.completed_tasks = Append(@, FLIGHT),
            !.agent_messages  = Append(@, Msg("flight_coordinator", "completed"))]
    ELSE [state EXCEPT
            !.errors         = Put(@, FLIGHT, outcome),
            !.agent_messages = Append(@, Msg("flight_coordinator", "error"))]

\* LangGraphTravelAgent._accommodation_coordinator: whether it reaches
\* accommodation_agent.run
accommodation_coordinator_calls(state) == ACCOM \notin Range(state.completed_tasks)

\* LangGraphTravelAgent._accommodation_coordinator
accommodation_coordinator(state, outcome) ==
    IF ~accommodation_coordinator_calls(state) THEN state
    ELSE IF outcome = "ok"
    THEN [state EXCEPT
            !.accommodation_details = "hotel",
            !.completed_tasks       = Append(@, ACCOM),
            !.agent_messages        = Append(@, Msg("accommodation_coordinator", "completed"))]
    ELSE [state EXCEPT
            !.errors         = Put(@, ACCOM, outcome),
            !.agent_messages = Append(@, Msg("accommodation_coordinator", "error"))]

\* LangGraphTravelAgent._itinerary_coordinator: whether it reaches
\* itinerary_agent.run
itinerary_coordinator_calls(state) ==
    /\ ITIN \notin Range(state.completed_tasks)
    /\ state.flight_details # "none"
    /\ state.accommodation_details # "none"

\* LangGraphTravelAgent._itinerary_coordinator
itinerary_coordinator(state, outcome) ==
    IF ~itinerary_coordinator_calls(state) THEN state
    ELSE IF outcome = "ok"
    THEN [state EXCEPT
            !.itinerary       = "itinerary",
            !.completed_tasks = Append(@, ITIN),
            !.agent_messages  = Append(@, Msg("itinerary_coordinator", "completed"))]
    ELSE [state EXCEPT
            !.errors         = Put(@, ITIN, outcome),
            !.agent_messages = Append(@, Msg("itinerary_coordinator", "error"))]

\* LangGraphTravelAgent._result_aggregator
result_aggregator(state) ==
    [state EXCEPT !.agent_messages = Append(@, Msg("result_aggregator", "finalizing"))]

\* Mutant: the simulated approval is written only when no feedback is there.
human_feedback_keeps_feedback(state) ==
    [state EXCEPT
        !.agent_messages = Append(@, Msg("human_feedback", "requesting_feedback")),
        !.user_feedback  = IF @ = "none" THEN "approved" ELSE @]

\* LangGraphTravelAgent._human_feedback
human_feedback(state) ==
    [state EXCEPT
        !.agent_messages = Append(@, Msg("human_feedback", "requesting_feedback")),
        !.user_feedback  = "approved"]

\* ---------------------------------------------- agent "pure": the graph
\* PureLangGraphTravelAgent._build_graph: add_node
PureNodes == {"supervisor", "flight_agent", "accommodation_agent",
              "itinerary_agent", "coordinator", "human_feedback"}

\* set_entry_point
PureEntry == "supervisor"

\* add_conditional_edges("supervisor", _route_next_action, {...})
PureSymbolTargets ==
    [parallel_search  |-> {"flight_agent", "accommodation_agent"},
     create_itinerary |-> {"itinerary_agent"},
     get_feedback     |-> {"human_feedback"},
     coordinate       |-> {"coordinator"},
     end              |-> {END}]

\* Mutant: the flight agent reports to the supervisor, not the coordinator.
PureEdges_flight_to_supervisor ==
    [flight_agent        |-> {"supervisor"},
     accommodation_agent |-> {"coordinator"},
     itinerary_agent     |-> {"coordinator"},
     human_feedback      |-> {"supervisor"},
     coordinator         |-> {"supervisor"}]

\* add_edge: the agents flow to the coordinator, the coordinator and
\* human_feedback to the supervisor
PureEdges ==
    [flight_agent        |-> {"coordinator"},
     accommodation_agent |-> {"coordinator"},
     itinerary_agent     |-> {"coordinator"},
     human_feedback      |-> {"supervisor"},
     coordinator         |-> {"supervisor"}]

\* compile(..., interrupt_before=["human_feedback"])
PureInterruptBefore == {"human_feedback"}

\* PureLangGraphTravelAgent._route_next_action
route_next_action(state) ==
    LET completed == Range(state.completed_tasks) IN
    IF completed = {} THEN "parallel_search"
    ELSE IF {FLIGHT, ACCOM} \subseteq completed /\ ITIN \notin completed
         THEN "create_itinerary"
    ELSE IF Cardinality(completed) >= 3
         THEN IF state.user_feedback = "none" THEN "get_feedback" ELSE "end"
    ELSE "coordinate"

\* -------------------------------------------- agent "pure": the handlers
\* PureLangGraphTravelAgent._supervisor_agent
pure_supervisor_agent(state) ==
    [state EXCEPT !.agent_messages = Append(@, Msg("supervisor", "coordinating"))]

\* PureLangGraphTravelAgent._flight_agent: whether it reaches the flight search
pure_flight_agent_calls(state) == FLIGHT \notin Range(state.completed_tasks)

\* PureLangGraphTravelAgent._flight_agent
pure_flight_agent(state, outcome) ==
    IF ~pure_flight_agent_calls(state) THEN state
    ELSE IF outcome = "ok"
    THEN [state EXCEPT
            !.flight_details  = "flight",
            !.completed_tasks = Append(@, FLIGHT),
            !.agent_messages  = Append(@, Msg("flight_agent", "completed"))]
    ELSE [state EXCEPT !.errors = Put(@, "flight_agent", outcome)]

\* PureLangGraphTravelAgent._accommodation_agent: whether it reaches the booking
pure_accommodation_agent_calls(state) == ACCOM \notin Range(state.completed_tasks)

\* PureLangGraphTravelAgent._accommodation_agent
pure_accommodation_agent(state, outcome) ==
    IF ~pure_accommodation_agent_calls(state) THEN state
    ELSE IF outcome = "ok"
    THEN [state EXCEPT
            !.accommodation_details = "hotel",
            !.completed_tasks       = Append(@, ACCOM),
            !.agent_messages        = Append(@, Msg("accommodation_agent", "completed"))]
    ELSE [state EXCEPT !.errors = Put(@, "accommodation_agent", outcome)]

\* PureLangGraphTravelAgent._itinerary_agent: whether it reaches the
\* itinerary creation
pure_itinerary_agent_calls(state) ==
    /\ ITIN \notin Range(state.completed_tasks)
    /\ state.flight_details # "none"
    /\ state.accommodation_details # "none"

\* PureLangGraphTravelAgent._itinerary_agent
pure_itinerary_agent(state, outcome) ==
    IF ~pure_itinerary_agent_calls(state) THEN state
    ELSE IF outcome = "ok"
    THEN [state EXCEPT
            !.itinerary       = "itinerary",
            !.completed_tasks = Append(@, ITIN),
            !.agent_messages  = Append(@, Msg("itinerary_agent", "completed"))]
    ELSE [state EXCEPT !.errors = Put(@, "itinerary_agent", outcome)]

\* PureLangGraphTravelAgent._coordinator_agent
pure_coordinator_agent(state) ==
    [state EXCEPT !.agent_messages = Append(@, Msg("coordinator", "status_update"))]

\* PureLangGraphTravelAgent._human_feedback_node
pure_human_feedback_node(state) ==
    [state EXCEPT
        !.user_feedback  = "approved",
        !.agent_messages = Append(@, Msg("human", "feedback_provided"))]

\* ---------------------------------------------- agent "multi": the graph
\* MultiAgentTravelWorkflow._create_agent_graph: add_node
MultiNodes == {"supervisor", "flight_agent", "accommodation_agent",
               "itinerary_agent", "coordinator"}

\* set_entry_point
MultiEntry == "supervisor"

\* add_conditional_edges("supervisor", _route_to_agents, {...})
MultiSymbolTargets ==
    [parallel_search    |-> {"flight_agent", "accommodation_agent"},
     flight_only        |-> {"flight_agent"},
     accommodation_only |-> {"accommodation_agent"},
     itinerary          |-> {"itinerary_agent"},
     end                |-> {END}]

\* Mutant: the coordinator's edge declared without the "continue" symbol.
MultiCoordinatorTargets_no_continue ==
    [create_itinerary |-> {"itinerary_agent"},
     end              |-> {END}]

\* add_conditional_edges("coordinator", _coordinate_next_step, {...})
MultiCoordinatorTargets ==
    [continue         |-> {"supervisor"},
     create_itinerary |-> {"itinerary_agent"},
     end              |-> {END}]

\* add_edge: the agents report back to the coordinator
MultiEdges ==
    [flight_agent        |-> {"coordinator"},
     accommodation_agent |-> {"coordinator"},
     itinerary_agent     |-> {"coordinator"}]

\* MultiAgentTravelWorkflow._route_to_agents: the symbol it returns
route_to_agents(state) ==
    LET completed == Range(state.completed_tasks) IN
    IF completed = {} THEN "parallel_search"
    ELSE IF {FLIGHT, ACCOM} \subseteq completed THEN "itinerary"
    ELSE IF FLIGHT \in completed /\ ACCOM \notin completed THEN "accommodation_only"
    ELSE IF ACCOM \in completed /\ FLIGHT \notin completed THEN "flight_only"
    ELSE "end"

\* MultiAgentTravelWorkflow._route_to_agents: the state object it was handed,
\* as it is once the function has returned (the branch for an empty completed
\* list assigns state.parallel_tasks before it returns its symbol)
route_to_agents_effect(state) ==
    IF Range(state.completed_tasks) = {}
    THEN [state EXCEPT !.parallel_tasks = <<FLIGHT, ACCOM>>]
    ELSE state

\* MultiAgentTravelWorkflow._coordinate_next_step
coordinate_next_step(state) ==
    LET completed == Range(state.completed_tasks) IN
    IF {FLIGHT, ACCOM} \subseteq completed /\ ITIN \notin completed
    THEN "create_itinerary"
    ELSE IF Cardinality(completed) < 3 THEN "continue"
    ELSE "end"

\* ------------------------------------------- agent "multi": the handlers
\* MultiAgentTravelWorkflow._supervisor_agent
multi_supervisor_agent(state) ==
    [state EXCEPT !.agent_messages =
        @ \o <<Msg("supervisor", "planning_coordination"),
               Msg("supervisor", "task_analysis")>>]

\* _flight_agent and _accommodation_agent run their activity whatever the
\* state holds
multi_flight_agent_calls(state) == TRUE

\* MultiAgentTravelWorkflow._flight_agent
multi_flight_agent(state, outcome) ==
    IF outcome = "ok"
    THEN [state EXCEPT
            !.flight_details  = "flight",
            !.completed_tasks = Append(@, FLIGHT),
            !.agent_messages  = @ \o <<Msg("flight_agent", "starting_search"),
                                       Msg("flight_agent", "search_completed")>>]
    ELSE [state EXCEPT
            !.errors         = Put(@, "flight_agent", outcome),
            !.agent_messages = @ \o <<Msg("flight_agent", "starting_search"),
                                      Msg("flight_agent", "error")>>]

multi_accommodation_agent_calls(state) == TRUE

\* Mutant: the accommodation agent stores its result in the flight slot.
multi_accommodation_agent_writes_flight_slot(state, outcome) ==
    IF outcome = "ok"
    THEN [state EXCEPT
            !.flight_details  = "hotel",
            !.completed_tasks = Append(@, ACCOM),
            !.agent_messages  = @ \o <<Msg("accommodation_agent", "starting_search"),
                                       Msg("accommodation_agent", "search_completed")>>]
    ELSE [state EXCEPT
            !.errors         = Put(@, "accommodation_agent", outcome),
            !.agent_messages = @ \o <<Msg("accommodation_agent", "starting_search"),
                                      Msg("accommodation_agent", "error")>>]

\* MultiAgentTravelWorkflow._accommodation_agent
multi_accommodation_agent(state, outcome) ==
    IF outcome = "ok"
    THEN [state EXCEPT
            !.accommodation_details = "hotel",
            !.completed_tasks = Append(@, ACCOM),
            !.agent_messages  = @ \o <<Msg("accommodation_agent", "starting_search"),
                                       Msg("accommodation_agent", "search_completed")>>]
    ELSE [state EXCEPT
            !.errors         = Put(@, "accommodation_agent", outcome),
            !.agent_messages = @ \o <<Msg("accommodation_agent", "starting_search"),
                                      Msg("accommodation_agent", "error")>>]

\* _itinerary_agent waits for its dependencies: no activity without both
\* detail slots
multi_itinerary_agent_calls(state) ==
    state.flight_details # "none" /\ state.accommodation_details # "none"

\* MultiAgentTravelWorkflow._itinerary_agent
multi_itinerary_agent(state, outcome) ==
    IF ~multi_itinerary_agent_calls(state)
    THEN [state EXCEPT !.agent_messages =
            Append(@, Msg("itinerary_agent", "waiting_dependencies"))]
    ELSE IF outcome = "ok"
    THEN [state EXCEPT
            !.itinerary       = "itinerary",
            !.completed_tasks = Append(@, ITIN),
            !.agent_messages  = @ \o <<Msg("itinerary_agent", "creating_itinerary"),
                                       Msg("itinerary_agent", "itinerary_completed")>>]
    ELSE [state EXCEPT
            !.errors         = Put(@, "itinerary_agent", outcome),
            !.agent_messages = @ \o <<Msg("itinerary_agent", "creating_itinerary"),
                                      Msg("itinerary_agent", "error")>>]

\* MultiAgentTravelWorkflow._coordinator_agent
multi_coordinator_agent(state) ==
    [state EXCEPT !.agent_messages =
        @ \o <<Msg("coordinator", "synchronizing")>>
          \o (IF state.flight_details # "none" /\ state.accommodation_details # "none"
              THEN <<Msg("coordinator", "information_sharing")>> ELSE <<>>)]

\* ------------------------------------------------------- dispatch by agent
Agents == {"lg", "pure", "multi"}

\* the agents compiled with a checkpointer (MultiAgentTravelWorkflow calls
\* compile() with none: its runs cannot be continued)
Checkpointed(g) == g \in {"lg", "pure"}

Nodes(g) ==
    CASE g = "lg" -> LgNodes [] g = "pure" -> PureNodes [] g = "multi" -> MultiNodes

Entry(g) ==
    CASE g = "lg" -> LgEntry [] g = "pure" -> PureEntry [] g = "multi" -> MultiEntry

InterruptBefore(g) ==
    CASE g = "lg"    -> LgInterruptBefore
      [] g = "pure"  -> PureInterruptBefore
      [] g = "multi" -> {}

\* the steps with a conditional edge, and their routing function
Conditional(g) == IF g = "multi" THEN {"supervisor", "coordinator"} ELSE {"supervisor"}

Route(g, n, state) ==
    CASE g = "lg"    -> route_from_supervisor(state)
      [] g = "pure"  -> route_next_action(state)
      [] g = "multi" -> IF n = "supervisor" THEN route_to_agents(state)
                        ELSE coordinate_next_step(state)

\* the state object a routing function was handed, after the evaluation: only
\* _route_to_agents contains an assignment to its argument
RouteEffect(g, n, state) ==
    IF g = "multi" /\ n = "supervisor" THEN route_to_agents_effect(state)
    ELSE state

SymbolTargets(g, n) ==
    CASE g = "lg"    -> LgSymbolTargets
      [] g = "pure"  -> PureSymbolTargets
      [] g = "multi" -> IF n = "supervisor" THEN MultiSymbolTargets
                        ELSE MultiCoordinatorTargets

Edges(g) ==
    CASE g = "lg" -> LgEdges [] g = "pure" -> PureEdges [] g = "multi" -> MultiEdges

\* the task whose handler step n invokes, "none" for a step without one
TaskOf(g, n) ==
    CASE n \in {"flight_coordinator", "flight_agent"}               -> FLIGHT
      [] n \in {"accommodation_coordinator", "accommodation_agent"} -> ACCOM
      [] n \in {"itinerary_coordinator", "itinerary_agent"}         -> ITIN
      [] OTHER                                                      -> "none"

\* whether step n, run on `state`, reaches its task handler
NodeCalls(g, n, state) ==
    CASE n = "flight_coordinator"        -> flight_coordinator_calls(state)
      [] n = "accommodation_coordinator" -> accommodation_coordinator_calls(state)
      [] n = "itinerary_coordinator"     -> itinerary_coordinator_calls(state)
      [] n = "flight_agent" /\ g = "pure"         -> pure_flight_agent_calls(state)
      [] n = "accommodation_agent" /\ g = "pure"  -> pure_accommodation_agent_calls(state)
      [] n = "itinerary_agent" /\ g = "pure"      -> pure_itinerary_agent_calls(state)
      [] n = "flight_agent" /\ g = "multi"        -> multi_flight_agent_calls(state)
      [] n = "accommodation_agent" /\ g = "multi" -> multi_accommodation_agent_calls(state)
      [] n = "itinerary_agent" /\ g = "multi"     -> multi_itinerary_agent_calls(state)
      [] OTHER                           -> FALSE

\* the state step n returns when run on `state` with its task handler
\* returning `outcome`
NodeFn(g, n, state, outcome) ==
    CASE n = "supervisor" /\ g = "lg"      -> supervisor(state)
      [] n = "supervisor" /\ g = "pure"    -> pure_supervisor_agent(state)
      [] n = "flight_coordinator"          -> flight_coordinator(state, outcome)
      [] n = "accommodation_coordinator"   -> accommodation_coordinator(state, outcome)
      [] n = "itinerary_coordinator"       -> itinerary_coordinator(state, outcome)
      [] n = "result_aggregator"           -> result_aggregator(state)
      [] n = "human_feedback" /\ g = "lg"  -> human_feedback(state)
      [] n = "flight_agent" /\ g = "pure"        -> pure_flight_agent(state, outcome)
      [] n = "accommodation_agent" /\ g = "pure" -> pure_accommodation_agent(state, outcome)
      [] n = "itinerary_agent" /\ g = "pure"     -> pure_itinerary_agent(state, outcome)
      [] n = "coordinator" /\ g = "pure"         -> pure_coordinator_agent(state)
      [] n = "human_feedback" /\ g = "pure" -> pure_human_feedback_node(state)
      [] n = "supervisor" /\ g = "multi"          -> multi_supervisor_agent(state)
      [] n = "flight_agent" /\ g = "multi"        -> multi_flight_agent(state, outcome)
      [] n = "accommodation_agent" /\ g = "multi" -> multi_accommodation_agent(state, outcome)
      [] n = "itinerary_agent" /\ g = "multi"     -> multi_itinerary_agent(state, outcome)
      [] n = "coordinator" /\ g = "multi"         -> multi_coordinator_agent(state)

\* ------------------------------------------------------------ the engine
\* What a handler of mode m may return on one invocation.
Outcomes(m) ==
    CASE m = "ok"    -> {"ok"}
      [] m = "fail"  -> ErrMsgs
      [] m = "flaky" -> {"ok"} \cup ErrMsgs

\* Merge of one returned state into the running state (spec 4.2 step 4):
\* the completed list by append-if-absent, the error map per key, the trace by
\* its new entries, a slot by last writer.
RECURSIVE AppendAllIfAbsent(_, _)
AppendAllIfAbsent(seq, more) ==
    IF more = <<>> THEN seq
    ELSE AppendAllIfAbsent(AppendIfAbsent(seq, Head(more)), Tail(more))

Slot(base, acc, r, f) == IF r[f] # base[f] THEN r[f] ELSE acc[f]

MergeOne(base, acc, r) ==
    [request               |-> Slot(base, acc, r, "request"),
     flight_details        |-> Slot(base, acc, r, "flight_details"),
     accommodation_details |-> Slot(base, acc, r, "accommodation_details"),
     itinerary             |-> Slot(base, acc, r, "itinerary"),
     user_feedback         |-> Slot(base, acc, r, "user_feedback"),
     parallel_tasks        |-> Slot(base, acc, r, "parallel_tasks"),
     completed_tasks       |-> AppendAllIfAbsent(acc.completed_tasks, r.completed_tasks),
     errors                |-> [k \in (DOMAIN acc.errors) \cup (DOMAIN r.errors) |->
                                  IF k \in DOMAIN r.errors
                                     /\ (k \notin DOMAIN base.errors \/ r.errors[k] # base.errors[k])
                                  THEN r.errors[k]
                                  ELSE IF k \in DOMAIN acc.errors THEN acc.errors[k]
                                  ELSE r.errors[k]],
     agent_messages        |-> acc.agent_messages
                               \o SubSeq(r.agent_messages,
                                         Len(base.agent_messages) + 1,
                                         Len(r.agent_messages))]

RECURSIVE MergeFrom(_, _, _)
MergeFrom(base, acc, ds) ==
    IF ds = <<>> THEN acc
    ELSE MergeFrom(base, MergeOne(base, acc, Head(ds).values), Tail(ds))

\* the join of a step: every returned state merged, in completion order
Merge(base, ds) == MergeFrom(base, base, ds)

\* The targets of the steps just run (spec 4.2 step 6): the routing function's
\* symbol looked up in the conditional edge, or the unconditional edge.
TargetsOf(g, n, state) ==
    IF n \in Conditional(g)
    THEN SymbolTargets(g, n)[Route(g, n, state)]
    ELSE Edges(g)[n]

NextSteps(g, ran, state) ==
    (UNION {TargetsOf(g, n, state) : n \in ran}) \ {END}

\* a routing function returned a symbol its conditional edge does not declare
UndeclaredSymbol(g, ran, state) ==
    \E n \in ran \cap Conditional(g) :
        Route(g, n, state) \notin (DOMAIN SymbolTargets(g, n)) \ undeclared

\* Checkpoint record (spec 3): the chain position is the step index, the
\* parent is the index of the checkpoint it extends (-1 for the first)
Checkpoint(chain, state, next) ==
    [step   |-> Len(chain),
     parent |-> Len(chain) - 1,
     values |-> state,
     next   |-> next]

\* Mutant: the new checkpoint replaces the head instead of extending it.
Save_replaces_head(chain, state, next) ==
    IF chain = <<>> THEN <<Checkpoint(chain, state, next)>>
    ELSE [chain EXCEPT ![Len(chain)] = Checkpoint(chain, state, next)]

\* CheckpointStore.Save: the chain extended by one checkpoint
Save(chain, state, next) == Append(chain, Checkpoint(chain, state, next))

\* CheckpointStore.LoadLatest
LoadLatest(chain) == chain[Len(chain)]

\* CheckpointStore.InjectValues with {user_feedback: v}: the head's values
\* updated in place
InjectValues(chain, v) ==
    [chain EXCEPT ![Len(chain)].values.user_feedback = v]

\* What a deterministic handler of task t returns under behaviour b
HandlerReturns(b, t) ==
    IF t \in Tasks /\ b[t] # "ok" THEN CHOOSE e \in ErrMsgs : TRUE ELSE "ok"

\* The step loop run end to end on graph g with no interrupt-before step
\* (spec 4.2 steps 3 to 6), its scheduled steps returning in the order
\* `schedule` gives from position i on: the state at TERMINATE, or the state
\* reached when the schedule runs out or names a step that is not scheduled.
RECURSIVE RunAlong(_, _, _, _, _, _, _)
RunAlong(g, b, state, pend, ds, schedule, i) ==
    IF pend = {}
    THEN IF ds = <<>> THEN state
         ELSE LET merged == Merge(state, ds)
                  ran    == {ds[k].node : k \in 1..Len(ds)}
                  next   == NextSteps(g, ran, merged)
              IN IF next = {} THEN merged
                 ELSE RunAlong(g, b, merged, next, <<>>, schedule, i)
    ELSE IF i > Len(schedule) \/ schedule[i] \notin pend THEN state
    ELSE LET n == schedule[i]
             o == HandlerReturns(b, TaskOf(g, n))
         IN RunAlong(g, b, state, pend \ {n},
                     Append(ds, [node     |-> n,
                                 returned |-> o,
                                 values   |-> NodeFn(g, n, state, o)]),
                     schedule, i + 1)

\* the final state of an uninterrupted run on request req
Uninterrupted(g, b, req, schedule) ==
    RunAlong(g, b, TravelPlanningState(req), {Entry(g)}, <<>>, schedule, 1)

\* what an entry point returns
RunResult(ok, susp, err, state) ==
    [success |-> ok, suspended |-> susp, error |-> err, values |-> state]

NoResult == RunResult(FALSE, FALSE, "not called", TravelPlanningState("none"))

\* Mutant: the checkpointer keeps one chain whatever the thread id.
PutThread_ignores_thread(st, thread, chain) == [t \in DOMAIN st |-> chain]

\* The checkpointer keeps each chain under the thread_id of the call's
\* config = {"configurable": {"thread_id": thread_id}}
PutThread(st, thread, chain) == [st EXCEPT ![thread] = chain]

\* ------------------------------------------------------------ the actions
Head_(s) == LoadLatest(store[s])

\* Run with an initial state is refused on a session that has a checkpoint
\* (spec 4.2): "session already started"
SessionStarted(chain) == chain # <<>>

Called(s, op) ==
    /\ pc[s] = "idle"
    /\ runs[s] < MaxRuns
    /\ runs' = [runs EXCEPT ![s] = @ + 1]
    /\ lastOp' = [lastOp EXCEPT ![s] = op]
    /\ events' = [events EXCEPT ![s] = <<>>]

\* Mutant: the except clause reports the failed call as a success.
run_except_reports_success(e) ==
    RunResult(TRUE, FALSE, e, TravelPlanningState("none"))

\* run(), except Exception as e: {"success": False, "error": str(e), ...}
run_except(e) == RunResult(FALSE, FALSE, e, TravelPlanningState("none"))

\* Run with an initial state (workflow.ainvoke(initial_state, config)), as
\* both agents' run() call it: an exception of the workflow is returned
\* through the except clause, and the first step scheduled is the entry step
RunInitialOn(s, req, op) ==
    /\ Called(s, op)
    /\ IF SessionStarted(store[s])
       THEN /\ result' = [result EXCEPT ![s] = run_except("session already started")]
            /\ UNCHANGED <<store, pc, cur, pending>>
       ELSE /\ store' = PutThread(store, s,
                               Save(<<>>, TravelPlanningState(req), {Entry(agent)}))
            /\ cur' = [cur EXCEPT ![s] = TravelPlanningState(req)]
            /\ pending' = [pending EXCEPT ![s] = {Entry(agent)}]
            /\ pc' = [pc EXCEPT ![s] = "running"]
            /\ UNCHANGED result
    /\ UNCHANGED <<deltas, log, calls, errd, resumed>>

\* the same, called with the thread id the caller supplied
RunInitial(s, req, op) ==
    /\ RunInitialOn(s, req, op)
    /\ UNCHANGED fixed

\* ------------------------------------------------ the default thread id
\* hash(request_str): Python's string hash, a signed 64-bit integer salted
\* per process; values that a process may give to distinct request strings
HashValues == {7, 12, 10007, -9993}

\* `% 10000  # Limit to 4 digits`
ThreadModulus == 10000

\* Python's % with a positive modulus: the residue in 0..modulus-1
PyMod(a, m) == ((a % m) + m) % m

\* thread_id = f"travel-{hash(request_str) % 10000}": the checkpointer's thread
\* of each derived id
ThreadName(n) == IF n = 7 THEN "s1" ELSE "s2"

default_thread_id(req) == ThreadName(PyMod(threads.hash[req], ThreadModulus))

NoThreads == [hash  |-> [r \in Requests |-> 0],
              asked |-> [s \in Sessions |-> {}]]

\* LangGraphTravelAgent.run / stream called with no thread_id
RunDefaultThread(req, op) ==
    /\ agent = "lg"
    /\ RunInitialOn(default_thread_id(req), req, op)
    /\ threads' = [threads EXCEPT ![ "asked" ][default_thread_id(req)] = @ \cup {req}]
    /\ UNCHANGED <<agent, interrupt_before, behaviour, active, durable, probe,
                   undeclared, built, history, heap, booking>>

run_default_thread(req) == RunDefaultThread(req, "run")

stream_default_thread(req) == RunDefaultThread(req, "stream")

\* LangGraphTravelAgent.run
run(s, req) == agent = "lg" /\ RunInitial(s, req, "run")

\* Mutant: the stream is started with no initial state on the new thread.
stream_without_initial(s, req) ==
    /\ agent = "lg"
    /\ Called(s, "stream")
    /\ result' = [result EXCEPT ![s] = run_except("no input")]
    /\ UNCHANGED <<fixed, store, pc, cur, pending, deltas, log, calls, errd,
                   resumed>>

\* LangGraphTravelAgent.stream: workflow.astream(initial_state, config), each
\* chunk passed on to the caller, who drains it
stream(s, req) == agent = "lg" /\ RunInitial(s, req, "stream")

\* PureLangGraphTravelAgent.run
pure_run(s, req) == agent = "pure" /\ RunInitial(s, req, "run")

\* PureLangGraphTravelAgent.stream
pure_stream(s, req) == agent = "pure" /\ RunInitial(s, req, "stream")

\* MultiAgentTravelWorkflow.run: the graph is compiled with no checkpointer
\* and ainvoke is given no thread, so every run is a session of its own
multi_run(s, req) == agent = "multi" /\ store[s] = <<>> /\ RunInitial(s, req, "run")

\* Mutant: a run without an initial state starts over at the entry step.
Continue_from_entry(s) ==
    /\ resumed' = [resumed EXCEPT ![s] = TRUE]
    /\ cur' = [cur EXCEPT ![s] = Head_(s)'.values]
    /\ pending' = [pending EXCEPT ![s] = {Entry(agent)}]
    /\ pc' = [pc EXCEPT ![s] = "running"]
    /\ UNCHANGED result

\* Run without an initial state (workflow.astream(None, config)): continues
\* from the next-step set of the latest checkpoint; nothing to do when it is
\* empty
Continue(s) ==
    /\ resumed' = [resumed EXCEPT ![s] = TRUE]
    /\ IF Head_(s)'.next = {}
       THEN /\ result' = [result EXCEPT ![s] =
                    RunResult(TRUE, FALSE, "none", Head_(s)'.values)]
            /\ UNCHANGED <<pc, cur, pending>>
       ELSE /\ cur' = [cur EXCEPT ![s] = Head_(s)'.values]
            /\ pending' = [pending EXCEPT ![s] = Head_(s)'.next]
            /\ pc' = [pc EXCEPT ![s] = "running"]
            /\ UNCHANGED result

\* Mutant: the thread is continued by passing an initial state again.
continue_run_with_initial(s) ==
    /\ Called(s, "continue")
    /\ store[s] # <<>>
    /\ result' = [result EXCEPT ![s] = run_except("session already started")]
    /\ UNCHANGED <<fixed, store, pc, cur, pending,
                   deltas, log, calls, errd, resumed>>

\* workflow.astream(None, config), as the durability tests resume a thread
continue_run(s) ==
    /\ Checkpointed(agent)
    /\ Called(s, "continue")
    /\ store[s] # <<>>
    /\ UNCHANGED store
    /\ Continue(s)
    /\ UNCHANGED <<fixed, deltas, log, calls, errd>>


\* Mutant: the feedback is stored as a new checkpoint on top of the head.
resume_from_feedback_appends(s, user_input) ==
    /\ agent = "lg"
    /\ Called(s, "resume")
    /\ store[s] # <<>>
    /\ store' = PutThread(store, s,
                    Save(store[s],
                         [Head_(s).values EXCEPT !.user_feedback = user_input],
                         Head_(s).next))
    /\ Continue(s)
    /\ UNCHANGED <<fixed, deltas, log, calls, errd>>

\* LangGraphTravelAgent.resume_from_feedback: update_state with the feedback,
\* then astream(None, config)
resume_from_feedback(s, user_input) ==
    /\ agent = "lg"
    /\ Called(s, "resume")
    /\ store[s] # <<>>
    /\ store' = PutThread(store, s, InjectValues(store[s], user_input))
    /\ Continue(s)
    /\ UNCHANGED <<fixed, deltas, log, calls, errd>>

\* PureLangGraphTravelAgent.resume_from_feedback: assigns the feedback to the
\* values of the snapshot get_state returned, then ainvoke(None, config).
\* Whether the assignment reaches the stored head depends on whether the
\* snapshot shares the checkpointer's object: both outcomes are possible.
pure_resume_from_feedback(s, user_input) ==
    /\ agent = "pure"
    /\ Called(s, "resume")
    /\ store[s] # <<>>
    /\ \/ store' = PutThread(store, s, InjectValues(store[s], user_input))
       \/ store' = store
    /\ Continue(s)
    /\ UNCHANGED <<fixed, deltas, log, calls, errd>>

\* One scheduled step runs to its return: its handler is invoked on the state
\* the step loop holds and what it returns is kept for the join.
ExecuteStep(s, n) ==
    /\ pc[s] = "running"
    /\ n \in pending[s]
    /\ Len(log[s]) < MaxSteps
    /\ LET invoked == NodeCalls(agent, n, cur[s])
           t       == TaskOf(agent, n)
       IN /\ invoked => calls[s][t] < MaxCalls
          /\ \E o \in (IF invoked THEN Outcomes(behaviour[t]) ELSE {"ok"}) :
               /\ deltas' = [deltas EXCEPT ![s] =
                      Append(@, [node     |-> n,
                                 returned |-> IF invoked THEN o ELSE "not called",
                                 values   |-> NodeFn(agent, n, cur[s], o)])]
               /\ calls' = IF invoked THEN [calls EXCEPT ![s][t] = @ + 1] ELSE calls
               /\ errd' = IF invoked /\ o # "ok"
                          THEN [errd EXCEPT ![s] = @ \cup {t}] ELSE errd
    /\ pending' = [pending EXCEPT ![s] = @ \ {n}]
    /\ log' = [log EXCEPT ![s] = Append(@, n)]
    /\ UNCHANGED <<fixed, store, pc, cur, result,
                   lastOp, runs, resumed, events>>

\* The join of a step (spec 4.2 steps 4 to 6 and 2): once every scheduled step
\* has returned, merge, route, checkpoint, and either stop (TERMINATE),
\* suspend before an interrupt-before step, or schedule the targets.
Join(s) ==
    /\ pc[s] = "running"
    /\ pending[s] = {}
    /\ deltas[s] # <<>>
    /\ LET merged == Merge(cur[s], deltas[s])
           ran    == {deltas[s][i].node : i \in 1..Len(deltas[s])}
           next   == NextSteps(agent, ran, merged)
       IN IF UndeclaredSymbol(agent, ran, merged)
          THEN /\ result' = [result EXCEPT ![s] = run_except("undeclared symbol")]
               /\ pc' = [pc EXCEPT ![s] = "idle"]
               /\ UNCHANGED <<store, cur, pending, events>>
          ELSE /\ store' = PutThread(store, s, Save(store[s], merged, next))
               /\ cur' = [cur EXCEPT ![s] = merged]
               /\ events' = [events EXCEPT ![s] =
                       Append(@, [steps |-> ran, values |-> merged])]
               /\ IF next = {}
                  THEN /\ result' = [result EXCEPT ![s] =
                               RunResult(TRUE, FALSE, "none", merged)]
                       /\ pc' = [pc EXCEPT ![s] = "idle"]
                       /\ UNCHANGED pending
                  ELSE IF next \cap interrupt_before # {}
                  THEN /\ result' = [result EXCEPT ![s] =
                               RunResult(TRUE, TRUE, "none", merged)]
                       /\ pc' = [pc EXCEPT ![s] = "idle"]
                       /\ UNCHANGED pending
                  ELSE /\ pending' = [pending EXCEPT ![s] = next]
                       /\ UNCHANGED <<result, pc>>
    /\ deltas' = [deltas EXCEPT ![s] = <<>>]
    /\ UNCHANGED <<fixed, lastOp, runs, log,
                   calls, errd, resumed>>

\* A timeout or a cancellation of the run (spec 5), between two steps or at
\* the barrier of a fan-out: what the steps returned so far is dropped, the
\* store keeps its last checkpoint and the call returns the error
Timeout(s) ==
    /\ pc[s] = "running"
    /\ result' = [result EXCEPT ![s] = run_except("timeout")]
    /\ pc' = [pc EXCEPT ![s] = "idle"]
    /\ pending' = [pending EXCEPT ![s] = {}]
    /\ deltas' = [deltas EXCEPT ![s] = <<>>]
    /\ UNCHANGED <<fixed, store, cur, lastOp, runs, log, calls, errd, resumed,
                   events>>

\* ---------------------------------- the durable backend, concurrent writers
\* The id of a chain's head (the step index; -1 for an empty chain)
HeadId(chain) == IF chain = <<>> THEN -1 ELSE LoadLatest(chain).step

\* Mutant: the durable Save extends the chain without comparing its head
\* with the supplied parent.
SaveDurable_unchecked(chain, parent, state, next) ==
    [ok |-> TRUE, chain |-> Save(chain, state, next)]

\* Durable Save (spec 4.3): the parent the writer supplies must be the stored
\* head, else the write is rejected with a concurrency conflict
SaveDurable(chain, parent, state, next) ==
    IF HeadId(chain) = parent
    THEN [ok |-> TRUE,  chain |-> Save(chain, state, next)]
    ELSE [ok |-> FALSE, chain |-> chain]

DurableInit ==
    [chain    |-> <<>>,
     loaded   |-> {},
     parent   |-> [w \in Writers |-> -1],
     attempts |-> {}]

\* a writer loads the head it will extend
DurableLoad(w) ==
    /\ w \notin durable.loaded
    /\ durable' = [durable EXCEPT !.loaded = @ \cup {w},
                                  !.parent[w] = HeadId(durable.chain)]
    /\ UNCHANGED <<agent, interrupt_before, behaviour, active, store, pc, cur,
                   pending, deltas, result, lastOp, runs, log, calls, errd,
                   resumed, events, probe, undeclared, built, history, heap, booking, threads>>

\* a writer saves on the parent it loaded; it reloads before it writes again
DurableWrite(w) ==
    /\ w \in durable.loaded
    /\ Len(durable.chain) < MaxChain
    /\ \E req \in Requests :
         LET r == SaveDurable(durable.chain, durable.parent[w],
                              TravelPlanningState(req), {})
         IN durable' = [durable EXCEPT
                 !.chain    = r.chain,
                 !.loaded   = @ \ {w},
                 !.attempts = @ \cup {[writer |-> w,
                                       parent |-> durable.parent[w],
                                       ok     |-> r.ok]}]
    /\ UNCHANGED <<agent, interrupt_before, behaviour, active, store, pc, cur,
                   pending, deltas, result, lastOp, runs, log, calls, errd,
                   resumed, events, probe, undeclared, built, history, heap, booking, threads>>

\* --------------------------- LangGraphAccommodationAgent: the pipeline
\* what openai.ChatCompletion.create does: raises, answers with a function
\* call, answers with text, or answers with a function call whose arguments
\* are not JSON
LlmOutcomes == {"raises", "function_call", "stop", "bad_arguments"}

\* what requests.post(..).json() does: raises, returns {}, returns a full
\* hotel record, or returns a record without the hotel fields
PostOutcomes == {"raises", "empty", "hotel", "partial"}

\* class AccommodationBookingState: the defaults of a state built from a
\* request ("none" stands for None and for the empty dict)
AccommodationBookingState(req) ==
    [request               |-> req,
     messages              |-> <<>>,
     function_args         |-> "none",
     accommodation_details |-> "none",
     booking_payload       |-> "none",
     booking_response      |-> "none",
     error                 |-> "none",
     llm_response          |-> "none"]

\* _create_workflow: the nodes in the order of their edges
BookingSteps == <<"prepare_request", "call_llm", "process_response",
                  "prepare_booking", "make_booking",
                  "create_accommodation_details", "END">>

StepAfter(n) == BookingSteps[(CHOOSE i \in 1..6 : BookingSteps[i] = n) + 1]

\* LangGraphAccommodationAgent._prepare_request
prepare_request(state) == [state EXCEPT !.messages = <<"system", "user">>]

\* LangGraphAccommodationAgent._call_llm
call_llm(state, llm) ==
    IF llm = "raises" THEN [state EXCEPT !.error = "llm failed"]
    ELSE [state EXCEPT !.llm_response = llm]

\* _process_response: json.loads raises on arguments that are not JSON
process_response_raises(state) ==
    state.error = "none" /\ state.llm_response = "bad_arguments"

\* LangGraphAccommodationAgent._process_response
process_response(state) ==
    IF state.error # "none" THEN state
    ELSE IF state.llm_response = "function_call"
    THEN [state EXCEPT !.function_args = "args"]
    ELSE state

\* LangGraphAccommodationAgent._prepare_booking
prepare_booking(state) ==
    [state EXCEPT !.booking_payload =
        IF state.function_args # "none" THEN "from_args" ELSE "from_request"]

\* LangGraphAccommodationAgent._make_booking
make_booking(state, post) ==
    IF post = "raises"
    THEN [state EXCEPT !.error = "booking failed", !.booking_response = "none"]
    ELSE [state EXCEPT !.booking_response = IF post = "empty" THEN "none" ELSE post]

\* Mutant: only the booking response decides on the placeholder.
create_accommodation_details_response_only(state) ==
    LET dates == IF state.function_args # "none" THEN "from_args" ELSE "from_request"
    IN [state EXCEPT !.accommodation_details =
          IF state.booking_response = "none"
          THEN [hotel_name |-> "No Hotel Found", dates |-> dates,
                price_per_night |-> 0, total_price |-> 0]
          ELSE IF state.booking_response = "hotel"
          THEN [hotel_name |-> "Grand Hotel", dates |-> "from_response",
                price_per_night |-> 150, total_price |-> 600]
          ELSE [hotel_name |-> "Echo Hotel", dates |-> dates,
                price_per_night |-> 100, total_price |-> 400]]

\* LangGraphAccommodationAgent._create_accommodation_details
create_accommodation_details(state) ==
    LET dates == IF state.function_args # "none" THEN "from_args" ELSE "from_request"
    IN [state EXCEPT !.accommodation_details =
          IF state.error # "none" \/ state.booking_response = "none"
          THEN [hotel_name |-> "No Hotel Found", dates |-> dates,
                price_per_night |-> 0, total_price |-> 0]
          ELSE IF state.booking_response = "hotel"
          THEN [hotel_name |-> "Grand Hotel", dates |-> "from_response",
                price_per_night |-> 150, total_price |-> 600]
          ELSE [hotel_name |-> "Echo Hotel", dates |-> dates,
                price_per_night |-> 100, total_price |-> 400]]

\* no run of the pipeline
NoBooking == [step |-> "none", llm |-> "none", post |-> "none",
              state |-> AccommodationBookingState("none")]

\* The pipeline's nodes, one step each (LangGraphAccommodationAgent.run:
\* workflow.ainvoke(initial_state))
StepPrepareRequest ==
    /\ booking.step = "prepare_request"
    /\ booking' = [booking EXCEPT !.state = prepare_request(@),
                                  !.step = StepAfter("prepare_request")]

StepCallLlm ==
    /\ booking.step = "call_llm"
    /\ booking' = [booking EXCEPT !.state = call_llm(@, booking.llm),
                                  !.step = StepAfter("call_llm")]

StepProcessResponse ==
    /\ booking.step = "process_response"
    /\ booking' = IF process_response_raises(booking.state)
                  THEN [booking EXCEPT !.step = "raised"]
                  ELSE [booking EXCEPT !.state = process_response(@),
                                       !.step = StepAfter("process_response")]

StepPrepareBooking ==
    /\ booking.step = "prepare_booking"
    /\ booking' = [booking EXCEPT !.state = prepare_booking(@),
                                  !.step = StepAfter("prepare_booking")]

StepMakeBooking ==
    /\ booking.step = "make_booking"
    /\ booking' = [booking EXCEPT !.state = make_booking(@, booking.post),
                                  !.step = StepAfter("make_booking")]

StepCreateAccommodationDetails ==
    /\ booking.step = "create_accommodation_details"
    /\ booking' = [booking EXCEPT !.state = create_accommodation_details(@),
                                  !.step = StepAfter("create_accommodation_details")]

NextBooking ==
    /\ \/ StepPrepareRequest
       \/ StepCallLlm
       \/ StepProcessResponse
       \/ StepPrepareBooking
       \/ StepMakeBooking
       \/ StepCreateAccommodationDetails
    /\ UNCHANGED <<agent, interrupt_before, behaviour, active, durable, probe,
                   undeclared, built, history, store, pc, cur, pending, deltas,
                   result, lastOp, runs, log, calls, errd, resumed, events,
                   heap, threads>>

\* ------------------------------------- container objects and their owners
\* The state classes declare three container fields; a handler changes them
\* in place (state.completed_tasks.append(..), state.errors[..] = ..,
\* state.agent_messages.append(..)) and returns the same state object.
Containers == {"completed_tasks", "errors", "agent_messages"}

ContainerOrder == <<"completed_tasks", "errors", "agent_messages">>

Position(c) == CHOOSE i \in 1..3 : ContainerOrder[i] = c

\* class TravelPlanningState / TravelAgentState: the default objects the class
\* body creates once for `= []` and `= {}` (objects 1 to 3)
ClassDefaults == [c \in Containers |-> Position(c)]

NoObjectState == [refs |-> [c \in Containers |-> 0], user_feedback |-> "none"]

\* the heap when the module is imported: the class defaults, no session state
HeapInit ==
    [objs    |-> <<<<>>, <<>>, <<>>>>,
     running |-> [s \in Sessions |-> NoObjectState],
     saved   |-> [s \in Sessions |-> <<>>]]

\* three new objects holding what the objects `refs` names hold, and their
\* references
WithCopies(h, refs) ==
    h.objs \o [i \in 1..3 |-> h.objs[refs[ContainerOrder[i]]]]

FreshRefs(h) == [c \in Containers |-> Len(h.objs) + Position(c)]

\* a state as its holder sees it: the contents of its containers
Contents(h, st) ==
    [c \in Containers |-> IF st.refs[c] = 0 THEN <<>> ELSE h.objs[st.refs[c]]]

\* Mutant: a new state holds the class's default objects themselves.
NewState_shares_defaults(s) ==
    /\ heap.running[s] = NoObjectState
    /\ heap.saved[s] = <<>>
    /\ Len(heap.objs) + 3 <= MaxObjects
    /\ heap' = [heap EXCEPT
           !.running[s] = [refs |-> ClassDefaults, user_feedback |-> "none"]]

\* TravelPlanningState(request=..) / TravelAgentState(request=..) /
\* MultiAgentState(): the state of a new session. The model base class gives
\* each instance its own copy of a field default; MultiAgentState.__init__
\* evaluates `[]` and `{}` anew.
NewState(s) ==
    /\ heap.running[s] = NoObjectState
    /\ heap.saved[s] = <<>>
    /\ Len(heap.objs) + 3 <= MaxObjects
    /\ heap' = [heap EXCEPT
           !.objs       = WithCopies(heap, ClassDefaults),
           !.running[s] = [refs |-> FreshRefs(heap), user_feedback |-> "none"]]

\* a handler of session s changes the state it was handed in place: on
\* success it appends to completed_tasks and agent_messages, on an exception
\* it writes errors and appends to agent_messages
HandlerAppends(s, ok) ==
    /\ heap.running[s] # NoObjectState
    /\ Len(heap.objs[heap.running[s].refs["agent_messages"]]) < MaxEntries
    /\ LET c == IF ok THEN "completed_tasks" ELSE "errors"
       IN heap' = [heap EXCEPT
              !.objs[heap.running[s].refs[c]] = Append(@, s),
              !.objs[heap.running[s].refs["agent_messages"]] = Append(@, s)]

\* Mutant: the checkpoint keeps the running state's own container objects.
SaveSnapshot_by_reference(s) ==
    /\ Checkpointed(agent)
    /\ heap.running[s] # NoObjectState
    /\ Len(heap.objs) + 3 <= MaxObjects
    /\ heap' = [heap EXCEPT !.saved[s] = Append(@, heap.running[s])]

\* CheckpointStore.Save (spec 3, 4.3): the checkpoint is a snapshot, it has
\* containers of its own
SaveSnapshot(s) ==
    /\ Checkpointed(agent)
    /\ heap.running[s] # NoObjectState
    /\ Len(heap.objs) + 3 <= MaxObjects
    /\ heap' = [heap EXCEPT
           !.objs     = WithCopies(heap, heap.running[s].refs),
           !.saved[s] = Append(@, [heap.running[s] EXCEPT !.refs = FreshRefs(heap)])]

\* CheckpointStore.LoadLatest (spec 9): a load produces fresh, independently
\* owned containers
LoadSnapshot(s) ==
    /\ heap.saved[s] # <<>>
    /\ Len(heap.objs) + 3 <= MaxObjects
    /\ LET head == heap.saved[s][Len(heap.saved[s])]
       IN heap' = [heap EXCEPT
              !.objs       = WithCopies(heap, head.refs),
              !.running[s] = [head EXCEPT !.refs = FreshRefs(heap)]]

\* CheckpointStore.InjectValues (spec 4.3): the feedback merged into the
\* stored head
InjectFeedback(s, v) ==
    /\ heap.saved[s] # <<>>
    /\ heap.saved[s][Len(heap.saved[s])].user_feedback # v
    /\ heap' = [heap EXCEPT !.saved[s][Len(heap.saved[s])].user_feedback = v]

NextAliasing ==
    /\ \E s \in Sessions :
          \/ NewState(s)
          \/ \E ok \in BOOLEAN : HandlerAppends(s, ok)
          \/ SaveSnapshot(s)
          \/ LoadSnapshot(s)
          \/ \E v \in FeedbackValues : InjectFeedback(s, v)
    /\ UNCHANGED <<agent, interrupt_before, behaviour, active, durable, probe,
                   undeclared, built, history, store, pc, cur, pending, deltas,
                   result, lastOp, runs, log, calls, errd, resumed, events,
                   booking, threads>>

\* ------------------------------------------------------ specifications
InitRunState ==
    /\ store    = [s \in Sessions |-> <<>>]
    /\ pc       = [s \in Sessions |-> "idle"]
    /\ cur      = [s \in Sessions |-> TravelPlanningState("none")]
    /\ pending  = [s \in Sessions |-> {}]
    /\ deltas   = [s \in Sessions |-> <<>>]
    /\ result   = [s \in Sessions |-> NoResult]
    /\ lastOp   = [s \in Sessions |-> "none"]
    /\ runs     = [s \in Sessions |-> 0]
    /\ log      = [s \in Sessions |-> <<>>]
    /\ calls    = [s \in Sessions |-> [t \in Tasks |-> 0]]
    /\ errd     = [s \in Sessions |-> {}]
    /\ resumed  = [s \in Sessions |-> FALSE]
    /\ events   = [s \in Sessions |-> <<>>]
    /\ durable  = DurableInit
    /\ history  = [s \in Sessions |-> <<>>]
    /\ heap     = HeapInit

InitSessions ==
    /\ booking = NoBooking
    /\ threads = NoThreads
    /\ InitRunState

\* ------------------------------------------------- inspecting a thread
Min(a, b) == IF a < b THEN a ELSE b

\* CheckpointStore.LoadHistory (spec 4.3): the newest `limit` checkpoints of a
\* chain, newest first
LoadHistory(chain, limit) ==
    [i \in 1..Min(limit, Len(chain)) |-> chain[Len(chain) + 1 - i]]

\* Mutant: the history is read oldest first.
HistoryOf_oldest_first(chain, limit) ==
    LET h == [i \in 1..Min(limit, Len(chain)) |-> chain[i]]
    IN [i \in 1..Len(h) |->
          [config        |-> h[i].step,
           parent_config |-> h[i].parent,
           values        |-> h[i].values,
           next          |-> h[i].next]]

\* get_state_history: a list with one entry per state of
\* workflow.aget_state_history(config, limit=limit), in its order
HistoryOf(chain, limit) ==
    LET h == LoadHistory(chain, limit)
    IN [i \in 1..Len(h) |->
          [config        |-> h[i].step,
           parent_config |-> h[i].parent,
           values        |-> h[i].values,
           next          |-> h[i].next]]

HistoryLimits == {0, 3, 10}

\* LangGraphTravelAgent.get_state_history(thread_id, limit)
get_state_history(s, limit) ==
    /\ agent = "lg"
    /\ Len(history[s]) < MaxHistory
    /\ history' = [history EXCEPT ![s] =
           Append(@, [limit    |-> limit,
                      chain    |-> store[s],
                      returned |-> HistoryOf(store[s], limit)])]
    /\ UNCHANGED <<agent, interrupt_before, behaviour, active, durable, store,
                   pc, cur, pending, deltas, result, lastOp, runs, log, calls,
                   errd, resumed, events, probe, undeclared, built, heap, booking, threads>>

\* ------------------------------------------------- building a graph
\* add_node, in the order of the calls
LgAddNode == <<"supervisor", "flight_coordinator", "accommodation_coordinator",
               "itinerary_coordinator", "result_aggregator", "human_feedback">>

PureAddNode == <<"supervisor", "flight_agent", "accommodation_agent",
                 "itinerary_agent", "coordinator", "human_feedback">>

MultiAddNode == <<"supervisor", "flight_agent", "accommodation_agent",
                  "itinerary_agent", "coordinator">>

AddNode(g) ==
    CASE g = "lg" -> LgAddNode [] g = "pure" -> PureAddNode [] g = "multi" -> MultiAddNode

\* What the graph-building method of agent g declares before it compiles
Declaration(g) ==
    [names       |-> AddNode(g),
     entry       |-> Entry(g),
     edges       |-> Edges(g),
     conditional |-> [n \in Conditional(g) |-> SymbolTargets(g, n)]]

\* names no graph registers
Ghosts == {"ghost", "Supervisor"}

NoDefect == [kind |-> "none", at |-> "none", sym |-> "none", to |-> "none"]

\* One construction mistake made while declaring graph g
Defects(g) ==
    {NoDefect}
    \cup {[kind |-> "duplicate name", at |-> n, sym |-> "none", to |-> "none"] :
             n \in Range(AddNode(g))}
    \cup {[kind |-> "dangling edge", at |-> n, sym |-> "none", to |-> x] :
             n \in DOMAIN Edges(g), x \in Ghosts}
    \cup UNION {{[kind |-> "dangling edge", at |-> n, sym |-> y, to |-> x] :
                   y \in DOMAIN SymbolTargets(g, n), x \in Ghosts} :
                 n \in Conditional(g)}
    \cup {[kind |-> "missing entry", at |-> "none", sym |-> "none", to |-> "none"]}
    \cup {[kind |-> "empty symbol set", at |-> n, sym |-> "none", to |-> "none"] :
             n \in Conditional(g)}

\* the declaration d with the mistake f made in it
WithDefect(d, f) ==
    CASE f.kind = "duplicate name" -> [d EXCEPT !.names = Append(@, f.at)]
      [] f.kind = "dangling edge" /\ f.sym = "none" ->
            [d EXCEPT !.edges[f.at] = {f.to}]
      [] f.kind = "dangling edge" /\ f.sym # "none" ->
            [d EXCEPT !.conditional[f.at][f.sym] = {f.to}]
      [] f.kind = "missing entry" -> [d EXCEPT !.entry = "none"]
      [] f.kind = "empty symbol set" ->
            [d EXCEPT !.conditional[f.at] = [y \in {} |-> {}]]
      [] OTHER -> d

\* the targets the edges and the conditional edges of a declaration name
DeclaredTargets(d) ==
    (UNION {d.edges[n] : n \in DOMAIN d.edges})
    \cup UNION {UNION {d.conditional[n][y] : y \in DOMAIN d.conditional[n]} :
                 n \in DOMAIN d.conditional}

\* GraphDefinition.Build (spec 4.1): the declaration validated; the graph, or
\* a construction error and no graph
Build(d) ==
    LET names == Range(d.names)
        error ==
            IF \E i, j \in 1..Len(d.names) : i # j /\ d.names[i] = d.names[j]
            THEN "duplicate name"
            ELSE IF d.entry \notin names THEN "missing entry"
            ELSE IF \E n \in DOMAIN d.conditional : DOMAIN d.conditional[n] = {}
            THEN "empty symbol set"
            ELSE IF ~(/\ DeclaredTargets(d) \subseteq names \cup {END}
                      /\ (DOMAIN d.edges) \cup (DOMAIN d.conditional) \subseteq names)
            THEN "dangling edge"
            ELSE "none"
    IN [error |-> error, graph |-> IF error = "none" THEN d ELSE "none"]

Unbuilt == [error |-> "not built", graph |-> "none"]

NoBuild == [defect |-> NoDefect, declared |-> "none", result |-> Unbuilt]

\* no routing function is being evaluated outside a run
NoProbe == [node |-> "none", state |-> TravelPlanningState("none"),
            after |-> TravelPlanningState("none"),
            symbol |-> "unevaluated", targets |-> {}]

\* One of the agents is constructed, its graph compiled as the source
\* compiles it, with any task handlers plugged in
Init ==
    /\ agent \in Agents
    /\ interrupt_before = InterruptBefore(agent)
    /\ behaviour \in [Tasks -> Modes]
    /\ active = {"s1"}
    /\ InitSessions
    /\ probe = NoProbe
    /\ built = NoBuild
    /\ undeclared = {}

\* The same graphs compiled with no interrupt-before step
InitNoInterrupt ==
    /\ agent \in Agents
    /\ interrupt_before = {}
    /\ behaviour \in [Tasks -> Modes]
    /\ active = {"s1"}
    /\ InitSessions
    /\ probe = NoProbe
    /\ built = NoBuild
    /\ undeclared = {}

Next ==
    \E s \in active :
        \/ \E req \in Requests : run(s, req)
        \/ \E req \in Requests : stream(s, req)
        \/ \E req \in Requests : pure_run(s, req)
        \/ \E req \in Requests : pure_stream(s, req)
        \/ \E req \in Requests : multi_run(s, req)
        \/ continue_run(s)
        \/ \E v \in FeedbackValues : resume_from_feedback(s, v)
        \/ \E v \in FeedbackValues : pure_resume_from_feedback(s, v)
        \/ \E n \in Nodes(agent) : ExecuteStep(s, n)
        \/ Join(s)

\* A started step loop runs on: the entry point awaits it to its end
Fairness ==
    \A s \in Sessions :
        /\ WF_vars(\E n \in LgNodes \cup PureNodes \cup MultiNodes : ExecuteStep(s, n))
        /\ WF_vars(Join(s))

\* The durable backend alone, written by concurrent writers
InitDurable ==
    /\ agent = "lg"
    /\ interrupt_before = InterruptBefore(agent)
    /\ behaviour = [t \in Tasks |-> "ok"]
    /\ active = {}
    /\ InitSessions
    /\ probe = NoProbe
    /\ built = NoBuild
    /\ undeclared = {}

NextDurable == \E w \in Writers : DurableLoad(w) \/ DurableWrite(w)

\* Two callers, each on its own thread id, with handlers that succeed or a
\* flight search that always fails
InitTwoSessions ==
    /\ agent \in {"lg", "pure"}
    /\ interrupt_before = InterruptBefore(agent)
    /\ behaviour \in {[t \in Tasks |-> "ok"],
                      [t \in Tasks |-> IF t = FLIGHT THEN "fail" ELSE "ok"]}
    /\ active = Sessions
    /\ InitSessions
    /\ probe = NoProbe
    /\ built = NoBuild
    /\ undeclared = {}

\* The completed lists a state can hold: up to three task names in any order
\* (a list may name a task twice: completed_tasks is a plain list)
CompletionLists == UNION {[1..n -> Tasks] : n \in 0..3}

\* A routing function about to be evaluated on any completion state
InitRouting ==
    /\ agent \in Agents
    /\ interrupt_before = InterruptBefore(agent)
    /\ behaviour = [t \in Tasks |-> "ok"]
    /\ active = {}
    /\ InitSessions
    /\ undeclared = {}
    /\ built = NoBuild
    /\ \E n \in Conditional(agent), c \in CompletionLists,
          f \in {"none"} \cup FeedbackValues, req \in Requests :
         probe = [node    |-> n,
                  state   |-> [TravelPlanningState(req) EXCEPT
                                 !.completed_tasks = c, !.user_feedback = f],
                  after   |-> [TravelPlanningState(req) EXCEPT
                                 !.completed_tasks = c, !.user_feedback = f],
                  symbol  |-> "unevaluated",
                  targets |-> {}]

\* the engine calls the routing function of the conditional edge and looks
\* the returned symbol up in the edge's declared mapping
EvaluateRouting ==
    /\ probe.symbol = "unevaluated"
    /\ LET sym == Route(agent, probe.node, probe.state)
       IN probe' = [probe EXCEPT
              !.symbol  = sym,
              !.after   = RouteEffect(agent, probe.node, probe.state),
              !.targets = IF sym \in DOMAIN SymbolTargets(agent, probe.node)
                          THEN SymbolTargets(agent, probe.node)[sym]
                          ELSE {"undeclared"}]
    /\ UNCHANGED <<agent, interrupt_before, behaviour, active, durable, store,
                   pc, cur, pending, deltas, result, lastOp, runs, log, calls,
                   errd, resumed, events, undeclared, built, history, heap, booking, threads>>

NextRouting == EvaluateRouting

\* every symbol some conditional edge of graph g declares
Symbols(g) == UNION {DOMAIN SymbolTargets(g, n) : n \in Conditional(g)}

\* A graph built with one symbol missing from its conditional edges: the
\* routing function can return a symbol its edge does not declare
InitUndeclared ==
    /\ agent \in Agents
    /\ interrupt_before = InterruptBefore(agent)
    /\ behaviour = [t \in Tasks |-> "ok"]
    /\ active = {"s1"}
    /\ InitSessions
    /\ probe = NoProbe
    /\ built = NoBuild
    /\ \E sym \in Symbols(agent) : undeclared = {sym}

\* A graph-building method about to compile its declaration, as written or
\* with one construction mistake
InitBuild ==
    /\ agent \in Agents
    /\ interrupt_before = InterruptBefore(agent)
    /\ behaviour = [t \in Tasks |-> "ok"]
    /\ active = {}
    /\ InitSessions
    /\ probe = NoProbe
    /\ undeclared = {}
    /\ \E f \in Defects(agent) :
         built = [defect   |-> f,
                  declared |-> WithDefect(Declaration(agent), f),
                  result   |-> Unbuilt]

\* workflow.compile(): the declaration is validated
BuildGraph ==
    /\ built.result.error = "not built"
    /\ built' = [built EXCEPT !.result = Build(built.declared)]
    /\ UNCHANGED <<agent, interrupt_before, behaviour, active, durable, store,
                   pc, cur, pending, deltas, result, lastOp, runs, log, calls,
                   errd, resumed, events, probe, undeclared, history, heap, booking, threads>>

NextBuild == BuildGraph

\* A caller of LangGraphTravelAgent that also inspects its thread's history
InitHistory ==
    /\ agent = "lg"
    /\ interrupt_before = InterruptBefore(agent)
    /\ behaviour \in {[t \in Tasks |-> "ok"],
                      [t \in Tasks |-> IF t = ACCOM THEN "fail" ELSE "ok"]}
    /\ active = {"s1"}
    /\ InitSessions
    /\ probe = NoProbe
    /\ built = NoBuild
    /\ undeclared = {}

NextHistory ==
    \/ Next
    \/ \E s \in active, limit \in HistoryLimits : get_state_history(s, limit)

\* Runs that a timeout or a cancellation may stop at any point
InitTimeout ==
    /\ agent \in Agents
    /\ interrupt_before = InterruptBefore(agent)
    /\ behaviour = [t \in Tasks |-> "ok"]
    /\ active = {"s1"}
    /\ InitSessions
    /\ probe = NoProbe
    /\ built = NoBuild
    /\ undeclared = {}

\* Two sessions of one agent, no run started: the ownership of the container
\* objects is followed on its own
InitAliasing ==
    /\ agent \in Agents
    /\ interrupt_before = InterruptBefore(agent)
    /\ behaviour = [t \in Tasks |-> "ok"]
    /\ active = Sessions
    /\ InitSessions
    /\ probe = NoProbe
    /\ built = NoBuild
    /\ undeclared = {}

\* The accommodation agent run on a request, with every combination of what
\* the LLM call and the booking request do
InitBooking ==
    /\ agent \in {"lg"}
    /\ interrupt_before = InterruptBefore(agent)
    /\ behaviour = [t \in Tasks |-> "ok"]
    /\ active = {}
    /\ InitRunState
    /\ threads = NoThreads
    /\ probe = NoProbe
    /\ built = NoBuild
    /\ undeclared = {}
    /\ \E req \in Requests, l \in LlmOutcomes, p \in PostOutcomes :
         booking = [step  |-> "prepare_request", llm |-> l, post |-> p,
                    state |-> AccommodationBookingState(req)]

\* LangGraphTravelAgent called for the requests with no thread id, in a
\* process that gives each request string a hash of its own
InitDefaultThread ==
    /\ agent = "lg"
    /\ interrupt_before = InterruptBefore(agent)
    /\ behaviour = [t \in Tasks |-> "ok"]
    /\ active = {}
    /\ InitRunState
    /\ booking = NoBooking
    /\ probe = NoProbe
    /\ built = NoBuild
    /\ undeclared = {}
    /\ \E h \in [Requests -> HashValues] :
         /\ \A r1, r2 \in Requests : h[r1] = h[r2] => r1 = r2
         /\ threads = [NoThreads EXCEPT !.hash = h]

NextDefaultThread ==
    \/ \E req \in Requests : run_default_thread(req)
    \/ \E req \in Requests : stream_default_thread(req)
    \/ \E s \in Sessions, n \in Nodes(agent) : ExecuteStep(s, n)
    \/ \E s \in Sessions : Join(s)

NextTimeout ==
    \/ Next
    \/ \E s \in active : Timeout(s)

Spec == Init /\ [][Next]_vars

SpecTimeout == InitTimeout /\ [][NextTimeout]_vars

SpecAliasing == InitAliasing /\ [][NextAliasing]_vars

SpecBooking == InitBooking /\ [][NextBooking]_vars

SpecDefaultThread == InitDefaultThread /\ [][NextDefaultThread]_vars

SpecHistory == InitHistory /\ [][NextHistory]_vars

SpecBuild == InitBuild /\ [][NextBuild]_vars

SpecUndeclared == InitUndeclared /\ [][Next]_vars

SpecRouting == InitRouting /\ [][NextRouting]_vars

SpecDurable == InitDurable /\ [][NextDurable]_vars

SpecTwoSessions == InitTwoSessions /\ [][Next]_vars

FairSpec == Spec /\ Fairness

SpecNoInterrupt == InitNoInterrupt /\ [][Next]_vars

FairSpecNoInterrupt == SpecNoInterrupt /\ Fairness

\* ------------------------------------------------------------ the claims
\* a run of session s has ended at TERMINATE: success, not suspended, and the
\* latest checkpoint schedules nothing
Terminated(s) ==
    /\ pc[s] = "idle"
    /\ store[s] # <<>>
    /\ result[s].success
    /\ ~result[s].suspended
    /\ Head_(s).next = {}

\* C1: with no step compiled interrupt-before, a fresh run in which no task
\* handler returns an error eventually ends at TERMINATE with success=true
\* and a latest checkpoint whose next-step set is empty.
C1_FreshRunTerminates ==
    \A s \in Sessions :
        (pc[s] = "running" /\ lastOp[s] = "run")
            ~> (errd[s] # {} \/ Terminated(s))

C1_Witness ==
    \E s \in Sessions :
        /\ interrupt_before = {}
        /\ lastOp[s] = "run"
        /\ errd[s] = {}
        /\ Terminated(s)
        /\ Range(result[s].values.completed_tasks) = Tasks
        /\ Len(store[s]) > 1

\* C2: a step that schedules an interrupt-before step (human_feedback) saves a
\* checkpoint whose next-step set is exactly that step and returns suspended
\* with nothing left scheduled; and the human_feedback handler has run only
\* in sessions where a resume was requested.
C2_InterruptBeforeFeedback ==
    /\ [][\A s \in Sessions :
            (/\ Len(store'[s]) > Len(store[s])
             /\ Head_(s)'.next \cap interrupt_before # {})
            => (/\ Head_(s)'.next = {"human_feedback"}
                /\ pc'[s] = "idle"
                /\ pending'[s] = {}
                /\ result'[s].success
                /\ result'[s].suspended
                /\ log'[s] = log[s])]_vars
    /\ [](\A s \in Sessions : "human_feedback" \in Range(log[s]) => resumed[s])

C2_Witness ==
    \E s \in Sessions :
        /\ agent = "lg"
        /\ pc[s] = "idle"
        /\ result[s].suspended
        /\ Head_(s).next = {"human_feedback"}
        /\ "human_feedback" \notin Range(log[s])
        /\ ~resumed[s]

\* C3: a resume of a session suspended before human_feedback with all three
\* tasks completed puts the feedback into the stored head, without a new
\* checkpoint, and the continued run eventually ends at TERMINATE with
\* success=true, having executed result_aggregator.
SuspendedAllDone(s) ==
    /\ pc[s] = "idle"
    /\ store[s] # <<>>
    /\ Head_(s).next = {"human_feedback"}
    /\ Range(Head_(s).values.completed_tasks) = Tasks

C3_ResumeCompletes ==
    /\ [][\A s \in Sessions :
            (/\ agent = "lg"
             /\ SuspendedAllDone(s)
             /\ runs'[s] # runs[s]
             /\ lastOp'[s] = "resume")
            => (/\ Len(store'[s]) = Len(store[s])
                /\ Head_(s)'.values.user_feedback \in FeedbackValues
                /\ Head_(s)'.step = Head_(s).step
                /\ Head_(s)'.next = Head_(s).next
                /\ cur'[s] = Head_(s)'.values
                /\ pending'[s] = {"human_feedback"})]_vars
    /\ \A s \in Sessions :
         (/\ agent = "lg"
          /\ lastOp[s] = "resume"
          /\ pc[s] = "running"
          /\ pending[s] = {"human_feedback"}
          /\ Range(cur[s].completed_tasks) = Tasks)
            ~> (Terminated(s) /\ "result_aggregator" \in Range(log[s]))

C3_Witness ==
    \E s \in Sessions :
        /\ agent = "lg"
        /\ lastOp[s] = "resume"
        /\ Terminated(s)
        /\ "human_feedback" \in Range(log[s])
        /\ log[s][Len(log[s])] = "result_aggregator"

\* C4: when one search handler always errors and the other always succeeds,
\* the supervisor's routing after the failure ends the run: once the supervisor
\* step that saw the failure has been joined the run is at TERMINATE with
\* success=true, errors holding exactly one entry (the failing search),
\* completed_tasks holding only the succeeding search, and no itinerary.
Other(t) == IF t = FLIGHT THEN ACCOM ELSE FLIGHT

ErrorKey(g, t) == IF g = "lg" THEN t ELSE CHOOSE n \in Nodes(g) : TaskOf(g, n) = t

C4_ScenarioBFallback ==
    \A s \in Sessions : \A t \in {FLIGHT, ACCOM} :
        (/\ behaviour[t] = "fail"
         /\ behaviour[Other(t)] = "ok"
         /\ t \in errd[s]
         /\ deltas[s] = <<>>
         /\ log[s] # <<>>
         /\ log[s][Len(log[s])] = "supervisor")
        => (/\ Terminated(s)
            /\ DOMAIN result[s].values.errors = {ErrorKey(agent, t)}
            /\ result[s].values.completed_tasks = <<Other(t)>>
            /\ result[s].values.itinerary = "none")

\* C5: a task handler's error is recorded in errors under the task's name
\* (LangGraphTravelAgent) and the run goes on; the entry in errors is still
\* there after the merge; every run that ends at TERMINATE reports
\* success=true whatever errors holds; success=false is reported only for a
\* call the step loop could not take a step for, never with a handler's error.
C5_HandlerErrorsAreData ==
    /\ [](\A s \in Sessions : \A i \in DOMAIN deltas[s] :
            (agent = "lg" /\ deltas[s][i].returned \in ErrMsgs)
            => (/\ TaskOf(agent, deltas[s][i].node) \in DOMAIN deltas[s][i].values.errors
                /\ deltas[s][i].values.errors[TaskOf(agent, deltas[s][i].node)]
                       = deltas[s][i].returned
                /\ pc[s] = "running"))
    /\ [](\A s \in Sessions :
            (agent = "lg" /\ deltas[s] = <<>>) => errd[s] \subseteq DOMAIN cur[s].errors)
    /\ [][\A s \in Sessions :
            (pc[s] = "running" /\ pc'[s] = "idle" /\ Len(store'[s]) > Len(store[s])
                /\ Head_(s)'.next = {})
            => (/\ result'[s].success
                /\ ~result'[s].suspended
                /\ result'[s].values.errors = Head_(s)'.values.errors)]_vars
    /\ [](\A s \in Sessions :
            ~result[s].success
            => result[s].error \in {"not called", "session already started",
                                    "undeclared symbol"})

C5_Witness ==
    \E s \in Sessions :
        /\ agent = "lg"
        /\ Terminated(s)
        /\ FLIGHT \in errd[s]
        /\ FLIGHT \in DOMAIN result[s].values.errors
        /\ result[s].values.errors[FLIGHT] \in ErrMsgs
        /\ result[s].success

\* C6: once a task's handler has returned an error in a session, that handler
\* is not invoked again in the session.
C6_NoAutomaticRetry ==
    [][\A s \in Sessions : \A t \in Tasks :
         t \in errd[s] => calls'[s][t] = calls[s][t]]_vars

\* C7: after the merge of a fan-out in which one step's handler errored and
\* the other's succeeded, completed_tasks holds only the succeeding step's
\* task and errors holds exactly one entry, the failing step's.
C7_FanOutPartialFailure ==
    [][\A s \in Sessions : \A i, j \in DOMAIN deltas[s] :
         (/\ Len(deltas[s]) = 2
          /\ deltas'[s] = <<>>
          /\ deltas[s][i].returned \in ErrMsgs
          /\ deltas[s][j].returned = "ok")
         => (/\ cur'[s].completed_tasks = <<TaskOf(agent, deltas[s][j].node)>>
             /\ DOMAIN cur'[s].errors = {deltas[s][i].node})]_vars

\* a run of session s has ended at TERMINATE and no handler returned an error
AllSucceeded(s) == Terminated(s) /\ errd[s] = {}

\* C8 as stated: when no handler errors the terminal aggregate has
\* completed_tasks = [flight_search, accommodation_search, itinerary_creation]
\* in that order, errors empty and success=true, however the two search steps
\* were scheduled.
C8_CompletedInDeclaredOrder ==
    \A s \in Sessions :
        AllSucceeded(s)
        => (/\ result[s].values.completed_tasks = <<FLIGHT, ACCOM, ITIN>>
            /\ DOMAIN result[s].values.errors = {}
            /\ result[s].success)

\* C8 amended: when no handler errors the terminal aggregate has the three
\* task names once each in completed_tasks, in the order their steps returned:
\* itinerary_creation last, flight_search before accommodation_search in
\* LangGraphTravelAgent (one search per step), the two searches in either
\* order after the fan-out of PureLangGraphTravelAgent; errors is empty and
\* success=true.
C8_CompletedInReturnOrder ==
    \A s \in Sessions :
        AllSucceeded(s)
        => LET done == result[s].values.completed_tasks
           IN /\ Len(done) = 3
              /\ Range(done) = Tasks
              /\ done[3] = ITIN
              /\ agent = "lg" => done = <<FLIGHT, ACCOM, ITIN>>
              /\ \A i, j \in 1..Len(log[s]) :
                    (/\ TaskOf(agent, log[s][i]) = done[1]
                     /\ TaskOf(agent, log[s][j]) = done[2]) => i < j
              /\ DOMAIN result[s].values.errors = {}
              /\ result[s].success

C8_Witness ==
    \E s \in Sessions :
        /\ agent = "pure"
        /\ AllSucceeded(s)
        /\ result[s].values.completed_tasks = <<ACCOM, FLIGHT, ITIN>>

DeterministicHandlers == \A t \in Tasks : behaviour[t] # "flaky"

C11_ResumeEquivalence ==
    \A s \in Sessions :
        (/\ DeterministicHandlers
         /\ Terminated(s)
         /\ runs[s] = 2
         /\ "human_feedback" \in Range(log[s]))
        => LET final == Uninterrupted(agent, behaviour,
                                      store[s][1].values.request, log[s])
           IN /\ Range(final.completed_tasks) = Tasks
              /\ result[s].values = final
              /\ Head_(s).values = final

C11_Witness ==
    \E s \in Sessions :
        /\ agent = "lg"
        /\ DeterministicHandlers
        /\ Terminated(s)
        /\ runs[s] = 2
        /\ lastOp[s] = "resume"
        /\ "human_feedback" \in Range(log[s])
        /\ result[s].values.user_feedback = "approved"

\* C12: in every reachable state a task name is in a completed list at most
\* once (in the running state, in every checkpoint and in every state a step
\* returned), and the step of a task that is already completed, executed on
\* that state, reaches no handler and returns the state as it was.
NoDuplicates(seq) == \A i, j \in 1..Len(seq) : seq[i] = seq[j] => i = j

StepIsNoOp(g, n, state) ==
    /\ ~NodeCalls(g, n, state)
    /\ \A o \in {"ok"} \cup ErrMsgs : NodeFn(g, n, state, o) = state

C12_CompletedOnceIdempotentStep ==
    \A s \in Sessions :
        /\ NoDuplicates(cur[s].completed_tasks)
        /\ \A i \in DOMAIN store[s] : NoDuplicates(store[s][i].values.completed_tasks)
        /\ \A i \in DOMAIN deltas[s] : NoDuplicates(deltas[s][i].values.completed_tasks)
        /\ \A n \in Nodes(agent) :
              TaskOf(agent, n) \in Range(cur[s].completed_tasks)
              => StepIsNoOp(agent, n, cur[s])

\* C13: the checkpoints of a session form one linear chain: the i-th has step
\* index i-1 and the checkpoint before it as parent (none for the first), so
\* no checkpoint has two children; a write adds exactly one checkpoint, whose
\* parent is the previous head and whose step index is the head's plus 1,
\* and leaves the chain before it as it was; the chain never gets shorter.
C13_LinearChain ==
    /\ [](\A s \in Sessions : \A i \in DOMAIN store[s] :
            /\ store[s][i].step = i - 1
            /\ store[s][i].parent = i - 2
            /\ \A j \in DOMAIN store[s] :
                  store[s][j].parent = store[s][i].parent => j = i)
    /\ [][\A s \in Sessions :
            /\ Len(store'[s]) >= Len(store[s])
            /\ Len(store'[s]) > Len(store[s])
               => /\ Len(store'[s]) = Len(store[s]) + 1
                  /\ SubSeq(store'[s], 1, Len(store[s])) = store[s]
                  /\ store[s] # <<>>
                     => /\ Head_(s)'.parent = Head_(s).step
                        /\ Head_(s)'.step = Head_(s).step + 1]_vars

C13_Witness ==
    \E s \in Sessions :
        /\ Len(store[s]) >= 4
        /\ store[s][1].parent = -1
        /\ Head_(s).parent = Len(store[s]) - 2
        /\ Head_(s).step = Len(store[s]) - 1

\* C14: of the writers that save on the durable chain with the same parent
\* id exactly one succeeds: a save whose parent is the stored head succeeds
\* and its checkpoint becomes the head, a save whose parent is no longer the
\* head gets a conflict and leaves the chain as it was.
C14_OptimisticConcurrency ==
    /\ [](\A a \in durable.attempts :
            Cardinality({b \in durable.attempts : b.parent = a.parent /\ b.ok}) = 1)
    /\ [][\A a \in durable'.attempts \ durable.attempts :
            IF a.parent = HeadId(durable.chain)
            THEN /\ a.ok
                 /\ Len(durable'.chain) = Len(durable.chain) + 1
                 /\ SubSeq(durable'.chain, 1, Len(durable.chain)) = durable.chain
                 /\ LoadLatest(durable'.chain).parent = a.parent
            ELSE /\ ~a.ok
                 /\ durable'.chain = durable.chain]_vars

C14_Witness ==
    \E a, b \in durable.attempts :
        /\ a.writer # b.writer
        /\ a.parent = b.parent
        /\ a.ok
        /\ ~b.ok
        /\ Len(durable.chain) >= 1

\* C15: with two sessions driven in any interleaving, a step that changes
\* anything of one session (an entry-point call, a step of the step loop, a
\* checkpoint write, a value injection) leaves the running state, the
\* checkpoints and everything else of the other session as they were.
SessionView(s) ==
    <<store[s], pc[s], cur[s], pending[s], deltas[s], result[s], lastOp[s],
      runs[s], log[s], calls[s], errd[s], resumed[s], events[s]>>

C15_SessionIsolation ==
    [][\A s, t \in Sessions :
         (s # t /\ SessionView(s)' # SessionView(s))
         => SessionView(t)' = SessionView(t)]_vars

C15_Witness ==
    \E s, t \in Sessions :
        /\ s # t
        /\ pc[s] = "running"
        /\ pc[t] = "running"
        /\ Len(store[s]) >= 3
        /\ Len(store[t]) >= 2
        /\ Len(store[s]) # Len(store[t])
        /\ cur[s].request # cur[t].request
        /\ \A i \in DOMAIN store[t] : store[t][i].values.request = cur[t].request

\* C16: a stream on a fresh session, drained to its end, has started the
\* session on the request's initial state at the entry step and has emitted
\* one event per step of the step loop, in execution order, each with the
\* state that step checkpointed; and it leaves the checkpoint chain, the
\* running state and the outcome that run leaves on a session given the same
\* request whose steps returned in the same order.
RECURSIVE StepsBefore(_, _)
StepsBefore(ev, i) ==
    IF i = 0 THEN 0 ELSE StepsBefore(ev, i - 1) + Cardinality(ev[i].steps)

FirstCallEnded(s, op) == lastOp[s] = op /\ runs[s] = 1 /\ pc[s] = "idle"

SupervisorJoins(s) ==
    /\ Len(deltas[s]) = 1
    /\ deltas[s][1].node = "supervisor"
    /\ deltas'[s] = <<>>
    /\ Len(store'[s]) > Len(store[s])

SearchSteps(g) == {n \in Nodes(g) : TaskOf(g, n) \in {FLIGHT, ACCOM}}

StepOf(g, t) == CHOOSE n \in Nodes(g) : TaskOf(g, n) = t

\* C17: when the supervisor routes on a state with no completed task, the
\* steps scheduled next are both search steps together, as one fan-out.
C17_FanOutWhenNothingCompleted ==
    [][\A s \in Sessions :
         (SupervisorJoins(s) /\ cur'[s].completed_tasks = <<>>)
         => (/\ Head_(s)'.next = SearchSteps(agent)
             /\ pending'[s] = SearchSteps(agent)
             /\ pc'[s] = "running")]_vars

\* C18: when the supervisor routes on a state with exactly one search task
\* completed, the step scheduled next is the missing search's step alone,
\* whichever of the two searches is the missing one.
C18_MissingSearchAlone ==
    [][\A s \in Sessions : \A t \in {FLIGHT, ACCOM} :
         (/\ SupervisorJoins(s)
          /\ Other(t) \in Range(cur'[s].completed_tasks)
          /\ t \notin Range(cur'[s].completed_tasks))
         => (/\ Head_(s)'.next = {StepOf(agent, t)}
             /\ pending'[s] = {StepOf(agent, t)})]_vars

\* C19: when the supervisor routes on a state with both search tasks
\* completed and the itinerary task not, the step scheduled next is the
\* itinerary step and nothing else; in MultiAgentTravelWorkflow, where the
\* coordinator routes before the supervisor gets to see such a state, the
\* supervisor's routing evaluated on it gives the itinerary step alone too.
SearchesDoneNoItinerary(state) ==
    /\ {FLIGHT, ACCOM} \subseteq Range(state.completed_tasks)
    /\ ITIN \notin Range(state.completed_tasks)

C19_ItineraryAlone ==
    /\ [][\A s \in Sessions :
            (SupervisorJoins(s) /\ SearchesDoneNoItinerary(cur'[s]))
            => (/\ Head_(s)'.next = {StepOf(agent, ITIN)}
                /\ pending'[s] = {StepOf(agent, ITIN)}
                /\ pc'[s] = "running")]_vars
    /\ [](\A s \in Sessions :
            SearchesDoneNoItinerary(cur[s])
            => NextSteps(agent, {"supervisor"}, cur[s]) = {StepOf(agent, ITIN)})

C19_Witness ==
    \E s \in Sessions :
        /\ agent = "lg"
        /\ pc[s] = "running"
        /\ deltas[s] = <<>>
        /\ log[s] # <<>>
        /\ log[s][Len(log[s])] = "supervisor"
        /\ cur[s].completed_tasks = <<FLIGHT, ACCOM>>
        /\ pending[s] = {"itinerary_coordinator"}
        /\ Head_(s).next = {"itinerary_coordinator"}

AllThreeCompleted(state) == Range(state.completed_tasks) = Tasks

Count(seq, x) == Cardinality({i \in 1..Len(seq) : seq[i] = x})

\* the supervisor of a checkpointed graph joins on a state with all three
\* tasks completed
SupervisorSeesAllDone(s) ==
    /\ Checkpointed(agent)
    /\ SupervisorJoins(s)
    /\ AllThreeCompleted(cur'[s])

\* the run is suspended before the feedback step exactly when the feedback
\* slot is empty
InterruptIffNoFeedback(s) ==
    (/\ Head_(s)'.next = {"human_feedback"}
     /\ pc'[s] = "idle"
     /\ result'[s].suspended)
    <=> cur'[s].user_feedback = "none"

\* C20 as stated: when the supervisor routes on a state with all three tasks
\* completed, the run is suspended before the feedback step if and only if
\* the feedback slot is empty, and with feedback present the aggregation step
\* is scheduled; a terminated run with all three tasks completed has executed
\* the aggregation step exactly once, as its last step.
C20_AggregationWhenFeedbackPresent ==
    /\ [][\A s \in Sessions :
            SupervisorSeesAllDone(s)
            => (/\ InterruptIffNoFeedback(s)
                /\ cur'[s].user_feedback # "none"
                   => (/\ Head_(s)'.next = {"result_aggregator"}
                       /\ pending'[s] = {"result_aggregator"}))]_vars
    /\ [](\A s \in Sessions :
            (Checkpointed(agent) /\ Terminated(s) /\ AllThreeCompleted(cur[s]))
            => (/\ Count(log[s], "result_aggregator") = 1
                /\ log[s][Len(log[s])] = "result_aggregator"))

\* C20 amended: the interrupt half holds for both checkpointed graphs; with
\* feedback present LangGraphTravelAgent schedules the aggregation step alone,
\* executes it exactly once and terminates, while PureLangGraphTravelAgent,
\* which has no aggregation step, terminates directly from the supervisor.
C20_AggregationOnlyInLangGraphTravelAgent ==
    /\ [][\A s \in Sessions :
            SupervisorSeesAllDone(s)
            => (/\ InterruptIffNoFeedback(s)
                /\ (cur'[s].user_feedback # "none" /\ agent = "lg")
                   => (/\ Head_(s)'.next = {"result_aggregator"}
                       /\ pending'[s] = {"result_aggregator"}
                       /\ pc'[s] = "running")
                /\ (cur'[s].user_feedback # "none" /\ agent = "pure")
                   => (/\ Head_(s)'.next = {}
                       /\ Terminated(s)'))]_vars
    /\ [](\A s \in Sessions :
            /\ Count(log[s], "result_aggregator") <= 1
            /\ (agent = "lg" /\ Terminated(s) /\ AllThreeCompleted(cur[s]))
               => (/\ Count(log[s], "result_aggregator") = 1
                   /\ log[s][Len(log[s])] = "result_aggregator")
            /\ agent = "pure" => Count(log[s], "result_aggregator") = 0)

C20_Witness ==
    \E s \in Sessions :
        /\ agent = "lg"
        /\ Terminated(s)
        /\ AllThreeCompleted(cur[s])
        /\ cur[s].user_feedback # "none"
        /\ resumed[s]
        /\ Count(log[s], "human_feedback") = 1
        /\ Count(log[s], "result_aggregator") = 1

\* the routing function of the probe has been evaluated
Evaluated == probe.symbol # "unevaluated"

\* exactly one of the two search tasks is in the completed list
OneSearchCompleted(state) ==
    Cardinality(Range(state.completed_tasks) \cap {FLIGHT, ACCOM}) = 1

\* a completion state that none of the first five branches of the supervisor
\* policy matches: something is completed, not exactly one search, not both
\* searches without the itinerary, and not all three
FallbackState(state) ==
    /\ state.completed_tasks # <<>>
    /\ ~OneSearchCompleted(state)
    /\ ~SearchesDoneNoItinerary(state)
    /\ ~AllThreeCompleted(state)

\* C21: on every completion state that none of the other branches of the
\* supervisor policy matches, the supervisor's routing function returns a
\* symbol whose only target is TERMINATE, so no task step and no aggregation
\* step is scheduled after it.
C21_FallbackRoutesToTerminate ==
    (/\ Evaluated
     /\ probe.node = "supervisor"
     /\ FallbackState(probe.state))
    => probe.targets = {END}

\* C30: on every state (every completed list, with and without feedback)
\* each routing function (_route_from_supervisor, _route_next_action,
\* _route_to_agents, _coordinate_next_step) returns a symbol declared in the
\* mapping of its conditional edge, and every target the mapping declares is
\* a registered step or END.
C30_RoutingSymbolsDeclared ==
    /\ Evaluated =>
         /\ probe.symbol \in DOMAIN SymbolTargets(agent, probe.node)
         /\ probe.targets = SymbolTargets(agent, probe.node)[probe.symbol]
         /\ probe.targets \subseteq Nodes(agent) \cup {END}
    /\ \A n \in Conditional(agent) :
         \A sym \in DOMAIN SymbolTargets(agent, n) :
             SymbolTargets(agent, n)[sym] \subseteq Nodes(agent) \cup {END}

C30_Witness ==
    /\ Evaluated
    /\ agent = "multi"
    /\ probe.node = "coordinator"
    /\ Range(probe.state.completed_tasks) = {ACCOM}
    /\ probe.symbol = "continue"
    /\ probe.targets = {"supervisor"}

\* the join of session s finds that a routing function returned a symbol its
\* conditional edge does not declare
RoutingFails(s) ==
    /\ pc[s] = "running"
    /\ pending[s] = {}
    /\ deltas[s] # <<>>
    /\ UndeclaredSymbol(agent, {deltas[s][i].node : i \in 1..Len(deltas[s])},
                        Merge(cur[s], deltas[s]))
    /\ deltas'[s] = <<>>

\* C22: when a routing function returns a symbol that its conditional edge
\* does not declare, the run aborts with a failure (success=false, not
\* suspended, an error) and writes no checkpoint for the step: the chain and
\* its head are what they were before the routing evaluation.
C22_UndeclaredSymbolAborts ==
    [][\A s \in Sessions :
         RoutingFails(s)
         => (/\ store'[s] = store[s]
             /\ pc'[s] = "idle"
             /\ pending'[s] = {}
             /\ ~result'[s].success
             /\ ~result'[s].suspended
             /\ result'[s].error = "undeclared symbol")]_vars

C22_Witness ==
    \E s \in Sessions :
        /\ undeclared # {}
        /\ pc[s] = "idle"
        /\ result[s].error = "undeclared symbol"
        /\ store[s] # <<>>
        /\ log[s] # <<>>
        /\ Len(store[s]) <= Len(log[s])

\* session s is resumed with feedback: resume_from_feedback is called on a
\* thread that has a checkpoint
ResumeCalled(s) ==
    /\ store[s] # <<>>
    /\ runs'[s] # runs[s]
    /\ lastOp'[s] = "resume"

\* every field of a state other than the feedback slot
SameButFeedback(a, b) == [a EXCEPT !.user_feedback = "none"] = [b EXCEPT !.user_feedback = "none"]

\* C23: injecting the feedback on resume changes only the supplied field of
\* the stored head's state: the chain keeps its length and its earlier
\* checkpoints, the head keeps its step index, its parent and its next-step
\* set, and every field of its state other than the feedback slot; in
\* LangGraphTravelAgent the feedback slot holds the supplied value.
C23_InjectValuesFrame ==
    [][\A s \in Sessions :
         ResumeCalled(s)
         => (/\ Len(store'[s]) = Len(store[s])
             /\ \A i \in 1..(Len(store[s]) - 1) : store'[s][i] = store[s][i]
             /\ Head_(s)'.step = Head_(s).step
             /\ Head_(s)'.parent = Head_(s).parent
             /\ Head_(s)'.next = Head_(s).next
             /\ SameButFeedback(Head_(s)'.values, Head_(s).values)
             /\ agent = "lg" => Head_(s)'.values.user_feedback \in FeedbackValues)]_vars

C23_Witness ==
    \E s \in Sessions :
        /\ agent = "lg"
        /\ lastOp[s] = "resume"
        /\ Len(store[s]) > 1
        /\ Head_(s).values.user_feedback \in FeedbackValues
        /\ Head_(s).values.completed_tasks # <<>>
        /\ Head_(s).step = Len(store[s]) - 1

\* C24: Build returns a construction error naming the mistake, and no graph,
\* for a declaration with a duplicate step name, with an edge or symbol target
\* that names no declared step, with no entry step, or with a conditional edge
\* whose declared symbol set is empty; the declaration of each travel-planning
\* graph, as its building method writes it, passes the validation and is the
\* graph returned.
C24_BuildValidates ==
    built.result.error # "not built" =>
        /\ built.defect # NoDefect =>
             /\ built.result.error = built.defect.kind
             /\ built.result.graph = "none"
        /\ built.defect = NoDefect =>
             /\ built.result.error = "none"
             /\ built.result.graph = Declaration(agent)
             /\ Range(built.result.graph.names) = Nodes(agent)

C24_Witness ==
    /\ agent = "pure"
    /\ built.defect.kind = "dangling edge"
    /\ built.defect.sym = "coordinate"
    /\ built.declared.conditional["supervisor"]["coordinate"] \cap Ghosts # {}
    /\ built.result.error = "dangling edge"
    /\ built.result.graph = "none"

\* C25: get_state_history(thread, limit) returns at most `limit` checkpoints
\* of that thread, the newest first and each followed by its parent; two
\* calls with the same limit and no write to the thread in between return
\* the same sequence.
C25_HistoryNewestFirst ==
    \A s \in Sessions :
        \A k \in 1..Len(history[s]) :
            LET h == history[s][k] IN
            /\ Len(h.returned) = Min(h.limit, Len(h.chain))
            /\ Len(h.returned) <= h.limit
            /\ h.returned # <<>> =>
                 /\ h.returned[1].config = LoadLatest(h.chain).step
                 /\ h.returned[1].values = LoadLatest(h.chain).values
                 /\ h.returned[1].next = LoadLatest(h.chain).next
            /\ \A i \in 1..(Len(h.returned) - 1) :
                 /\ h.returned[i].parent_config = h.returned[i + 1].config
                 /\ h.returned[i + 1].config < h.returned[i].config
            /\ \A j \in 1..Len(history[s]) :
                 (history[s][j].limit = h.limit /\ history[s][j].chain = h.chain)
                 => history[s][j].returned = h.returned

C25_Witness ==
    \E s \in Sessions :
        /\ Len(history[s]) = 2
        /\ history[s][1].limit = 3
        /\ history[s][2].limit = 3
        /\ history[s][1].chain = history[s][2].chain
        /\ Len(history[s][1].chain) > 3
        /\ Len(history[s][2].returned) = 3

\* the steps whose returned states are waiting for the join
Returned(s) == {deltas[s][i].node : i \in 1..Len(deltas[s])}

\* the run of session s is stopped by a timeout
TimesOut(s) ==
    /\ pc[s] = "running"
    /\ pc'[s] = "idle"
    /\ result'[s].error = "timeout"

\* C26: a timeout or cancellation during a step, the wait at the barrier of a
\* fan-out included, leaves the store with the checkpoint it had and returns
\* a failure with the timeout error; a checkpoint is only ever written by a
\* join that merges what every step scheduled by the previous checkpoint
\* returned, never the returned states of only some steps of a fan-out; and
\* a later run without initial state continues from the stored checkpoint,
\* with its state and its next steps.
C26_TimeoutKeepsMergedCheckpoint ==
    /\ [][\A s \in Sessions :
            TimesOut(s)
            => (/\ store'[s] = store[s]
                /\ ~result'[s].success
                /\ ~result'[s].suspended
                /\ pending'[s] = {}
                /\ deltas'[s] = <<>>)]_vars
    /\ [][\A s \in Sessions :
            (pc[s] = "running" /\ store'[s] # store[s])
            => (/\ pending[s] = {}
                /\ Returned(s) = Head_(s).next
                /\ Len(store'[s]) = Len(store[s]) + 1
                /\ Head_(s)'.values = Merge(cur[s], deltas[s])
                /\ cur[s] = Head_(s).values)]_vars
    /\ [][\A s \in Sessions :
            (/\ result[s].error = "timeout"
             /\ runs'[s] # runs[s]
             /\ lastOp'[s] = "continue")
            => (/\ store'[s] = store[s]
                /\ Head_(s).next # {}
                /\ pc'[s] = "running"
                /\ cur'[s] = Head_(s).values
                /\ pending'[s] = Head_(s).next)]_vars

C26_Witness ==
    \E s \in Sessions :
        /\ agent = "pure"
        /\ behaviour = [t \in Tasks |-> "ok"]
        /\ lastOp[s] = "continue"
        /\ Count(log[s], "flight_agent") = 2
        /\ Count(log[s], "accommodation_agent") = 1
        /\ SuspendedAllDone(s)

\* two checkpoints that schedule the same steps on the same state, the trace
\* of agent messages apart
SameConfiguration(c, d) ==
    /\ c.next = d.next
    /\ [c.values EXCEPT !.agent_messages = <<>>]
         = [d.values EXCEPT !.agent_messages = <<>>]

\* C27: the step loop never cycles: with handlers that each always succeed or
\* always fail, a run never comes back to a configuration (the state and the
\* steps scheduled next) that an earlier checkpoint of its thread already
\* recorded, from which the same steps would repeat without end.
C27_StepLoopNeverCycles ==
    \A s \in Sessions :
        DeterministicHandlers =>
            \A i, j \in 1..Len(store[s]) :
                i < j => ~SameConfiguration(store[s][i], store[s][j])

\* the join of session s merges a fan-out of the two search steps in which
\* both handlers succeeded
FanOutJoins(s) ==
    /\ Len(deltas[s]) = 2
    /\ deltas'[s] = <<>>
    /\ {TaskOf(agent, deltas[s][i].node) : i \in 1..2} = {FLIGHT, ACCOM}
    /\ \A i \in 1..2 : deltas[s][i].returned = "ok"

\* C28: after a fan-out in which both search handlers succeed, in whichever
\* order the two returned, the merged state and the checkpoint written hold
\* both task names in the completed list, once each, and both result slots,
\* each with its own handler's result.
C28_FanOutNoLostUpdate ==
    [][\A s \in Sessions :
         FanOutJoins(s)
         => (/\ {FLIGHT, ACCOM} \subseteq Range(cur'[s].completed_tasks)
             /\ Count(cur'[s].completed_tasks, FLIGHT) = 1
             /\ Count(cur'[s].completed_tasks, ACCOM) = 1
             /\ cur'[s].flight_details = "flight"
             /\ cur'[s].accommodation_details = "hotel"
             /\ Head_(s)'.values = cur'[s])]_vars

C28_Witness ==
    \E s \in Sessions :
        /\ agent = "multi"
        /\ pc[s] = "running"
        /\ deltas[s] = <<>>
        /\ pending[s] = {"coordinator"}
        /\ log[s] = <<"supervisor", "accommodation_agent", "flight_agent">>
        /\ cur[s].completed_tasks = <<ACCOM, FLIGHT>>
        /\ cur[s].flight_details = "flight"
        /\ cur[s].accommodation_details = "hotel"

\* a fan-out of session s is in progress: the head scheduled both search
\* steps and at least one has not returned
FanOutInProgress(s) ==
    /\ pc[s] = "running"
    /\ Head_(s).next = SearchSteps(agent)
    /\ Cardinality(Head_(s).next) = 2
    /\ pending[s] # {}

\* C29: while a step of a fan-out has not returned, nothing is merged, no
\* checkpoint is written and no step is scheduled; the join that follows
\* merges both returned states into one checkpoint and schedules the
\* coordinator once; and in the order of executed steps the two search steps
\* of a fan-out are followed by one execution of the coordinator, not two.
C29_FanOutBarrier ==
    /\ [][\A s \in Sessions :
            FanOutInProgress(s)
            => (/\ store'[s] = store[s]
                /\ cur'[s] = cur[s]
                /\ pending'[s] \subseteq pending[s]
                /\ Returned(s) \cup pending[s] = Head_(s).next)]_vars
    /\ [][\A s \in Sessions :
            (/\ Len(deltas[s]) = 2
             /\ deltas'[s] = <<>>
             /\ Returned(s) = SearchSteps(agent))
            => (/\ Len(store'[s]) = Len(store[s]) + 1
                /\ Head_(s)'.next = {"coordinator"}
                /\ pending'[s] = {"coordinator"})]_vars
    /\ [](\A s \in Sessions : \A i \in 1..Len(log[s]) :
            (/\ i + 1 <= Len(log[s])
             /\ {log[s][i], log[s][i + 1]} = SearchSteps(agent))
            => (/\ i + 2 <= Len(log[s]) => log[s][i + 2] = "coordinator"
                /\ i + 3 <= Len(log[s]) => log[s][i + 3] # "coordinator"))

C29_Witness ==
    \E s \in Sessions :
        /\ agent = "pure"
        /\ log[s] = <<"supervisor", "accommodation_agent", "flight_agent",
                      "coordinator", "supervisor">>
        /\ Len(store[s]) = 4
        /\ store[s][3].next = {"coordinator"}
        /\ store[s][2].next = {"flight_agent", "accommodation_agent"}

\* ---------------------------------------------------------------- C31
\* C31: evaluating a routing function leaves the state it was handed unchanged:
\* no field of the state differs before and after the evaluation.
\* MultiAgentTravelWorkflow._route_to_agents assigns parallel_tasks when the
\* completed list is empty, so the statement fails for that function.
C31_RoutingLeavesStateUnchanged ==
    Evaluated => probe.after = probe.state

\* the routing functions of the two checkpointed agents, and the coordinator
\* of MultiAgentTravelWorkflow, do leave the state unchanged
C31_OtherRoutingFunctionsReadOnly ==
    (Evaluated /\ ~(agent = "multi" /\ probe.node = "supervisor"))
        => probe.after = probe.state

C31_Witness ==
    /\ Evaluated
    /\ agent = "multi"
    /\ probe.node = "supervisor"
    /\ probe.state.completed_tasks = <<>>
    /\ probe.after.parallel_tasks = <<FLIGHT, ACCOM>>

\* ---------------------------------------------------------------- C32
LgCoordinators ==
    {"flight_coordinator", "accommodation_coordinator", "itinerary_coordinator"}

SchedulesToFeedback(g) ==
    IF g = "lg"
    THEN {<<"supervisor", "flight_coordinator", "supervisor",
            "accommodation_coordinator", "supervisor", "itinerary_coordinator",
            "supervisor">>}
    ELSE {<<"supervisor", a, b, "coordinator", "supervisor", "itinerary_agent",
            "coordinator", "supervisor">> :
             <<a, b>> \in {<<"flight_agent", "accommodation_agent">>,
                            <<"accommodation_agent", "flight_agent">>}}

\* and from there to TERMINATE
SchedulesToEnd(g) ==
    {sch \o <<"human_feedback", "supervisor">>
         \o (IF g = "lg" THEN <<"result_aggregator">> ELSE <<>>) :
       sch \in SchedulesToFeedback(g)}

\* the states in which an uninterrupted run on request req is suspended, and
\* those in which it terminates
UninterruptedSuspended(g, req) ==
    {Uninterrupted(g, behaviour, req, sch) : sch \in SchedulesToFeedback(g)}

UninterruptedTerminal(g, req) ==
    {Uninterrupted(g, behaviour, req, sch) : sch \in SchedulesToEnd(g)}

\* a handler is invoked by the step that has just returned in session s
HandlerInvoked(s) ==
    /\ Len(deltas'[s]) = Len(deltas[s]) + 1
    /\ deltas'[s][Len(deltas'[s])].returned # "not called"

\* the latest checkpoint of session s holds no feedback value supplied from
\* outside (a resume with feedback is not a run without input)
NoFeedbackSupplied(s) == Head_(s).values.user_feedback \notin FeedbackValues

\* C33: when a run was abandoned after a checkpoint was stored, a later run
\* without initial state continues with the state and the next steps of the
\* latest checkpoint; no step invokes the handler of a task that is already in
\* the completed list of the state it runs on; and the state in which the
\* session ends up suspended or terminated, no externally supplied feedback
\* being in it, is one in which an uninterrupted run on the same request ends
\* up suspended or terminated.
C33_AbandonedRunContinues ==
    /\ [][\A s \in Sessions :
            (/\ Checkpointed(agent)
             /\ result[s].error = "timeout"
             /\ store[s] # <<>>
             /\ lastOp'[s] = "continue"
             /\ runs'[s] # runs[s])
            => (/\ store'[s] = store[s]
                /\ cur'[s] = LoadLatest(store[s]).values
                /\ pending'[s] = LoadLatest(store[s]).next)]_vars
    /\ [][\A s \in Sessions :
            (Checkpointed(agent) /\ HandlerInvoked(s))
            => TaskOf(agent, deltas'[s][Len(deltas'[s])].node)
                   \notin Range(cur[s].completed_tasks)]_vars
    /\ [](\A s \in Sessions :
            Checkpointed(agent) =>
              /\ (SuspendedAllDone(s) /\ NoFeedbackSupplied(s))
                  => Head_(s).values
                       \in UninterruptedSuspended(agent, store[s][1].values.request)
              /\ (Terminated(s) /\ NoFeedbackSupplied(s))
                  => Head_(s).values
                       \in UninterruptedTerminal(agent, store[s][1].values.request))

\* a run abandoned after the flight handler had returned a second time is
\* continued and ends up suspended with all three tasks completed
C33_Witness ==
    \E s \in Sessions :
        /\ agent = "lg"
        /\ lastOp[s] = "continue"
        /\ runs[s] = 3
        /\ calls[s][FLIGHT] = 2
        /\ calls[s][ACCOM] = 2
        /\ SuspendedAllDone(s)
        /\ Head_(s).values \in UninterruptedSuspended(agent, store[s][1].values.request)

\* an abandoned fan-out of PureLangGraphTravelAgent, continued to TERMINATE
C33_WitnessFanOut ==
    \E s \in Sessions :
        /\ agent = "pure"
        /\ lastOp[s] = "continue"
        /\ calls[s][FLIGHT] = 2
        /\ Terminated(s)
        /\ Head_(s).values \in UninterruptedTerminal(agent, store[s][1].values.request)

\* ---------------------------------------------------------------- C34
\* the tasks with an entry in the error map of a state of graph g
FailedTasks(g, state) == {t \in Tasks : ErrorKey(g, t) \in DOMAIN state.errors}

\* C34: in every reachable state (the running state and every checkpoint) no
\* task is both in the completed list and a key of the error map.
C34_NoStaleError ==
    \A s \in Sessions :
        /\ Range(cur[s].completed_tasks) \cap FailedTasks(agent, cur[s]) = {}
        /\ \A i \in 1..Len(store[s]) :
              Range(store[s][i].values.completed_tasks)
                  \cap FailedTasks(agent, store[s][i].values) = {}

\* the flight handler failed, was invoked again and succeeded, and the run
\* ended with flight_search both completed and in the error map
C34_Witness ==
    \E s \in Sessions :
        /\ agent = "lg"
        /\ behaviour[FLIGHT] = "flaky"
        /\ calls[s][FLIGHT] = 2
        /\ SuspendedAllDone(s)
        /\ FLIGHT \in DOMAIN result[s].values.errors
        /\ FLIGHT \in Range(result[s].values.completed_tasks)

\* ---------------------------------------------------------------- C35
\* C35: when a resume with feedback v has run to TERMINATE, the feedback slot
\* of the final state (returned and stored) is the supplied value v.
C35_ResumeKeepsSuppliedFeedback ==
    \A s \in Sessions :
        (Terminated(s) /\ lastOp[s] = "resume")
        => /\ result[s].values.user_feedback \in FeedbackValues
           /\ Head_(s).values.user_feedback \in FeedbackValues

\* the resumed run of LangGraphTravelAgent executed human_feedback on a state
\* holding the supplied value and ended with the handler's own value
C35_Witness ==
    \E s \in Sessions :
        /\ agent = "lg"
        /\ Terminated(s)
        /\ lastOp[s] = "resume"
        /\ "human_feedback" \in Range(log[s])
        /\ \E i \in 1..Len(store[s]) :
              /\ store[s][i].values.user_feedback \in FeedbackValues
              /\ store[s][i].next = {"human_feedback"}
        /\ result[s].values.user_feedback = "approved"

\* ---------------------------------------------------------------- C36
\* the result slot of a task
SlotOf(t) ==
    CASE t = FLIGHT -> "flight_details"
      [] t = ACCOM  -> "accommodation_details"
      [] t = ITIN   -> "itinerary"

\* in `state` the itinerary is completed only with both searches, and every
\* completed task has its result slot set
CompletedConsistent(state) ==
    /\ ITIN \in Range(state.completed_tasks)
           => {FLIGHT, ACCOM} \subseteq Range(state.completed_tasks)
    /\ \A t \in Range(state.completed_tasks) : state[SlotOf(t)] # "none"

\* C36: the itinerary handler is invoked only on a state in which both search
\* result slots are set; and in every reachable state (the running state,
\* every returned state and every checkpoint) itinerary_creation is completed
\* only if both searches are, and every completed task has its slot set.
C36_ItineraryNeedsBothSearches ==
    /\ [][\A s \in Sessions :
            (/\ HandlerInvoked(s)
             /\ TaskOf(agent, deltas'[s][Len(deltas'[s])].node) = ITIN)
            => (/\ cur[s].flight_details # "none"
                /\ cur[s].accommodation_details # "none")]_vars
    /\ [](\A s \in Sessions :
            /\ CompletedConsistent(cur[s])
            /\ \A i \in 1..Len(deltas[s]) : CompletedConsistent(deltas[s][i].values)
            /\ \A i \in 1..Len(store[s]) : CompletedConsistent(store[s][i].values))

\* one search failed once before it succeeded, and the itinerary handler ran
\* after both
C36_Witness ==
    \E s \in Sessions :
        /\ agent = "multi"
        /\ ACCOM \in errd[s]
        /\ calls[s][ITIN] = 1
        /\ ITIN \in Range(cur[s].completed_tasks)
        /\ cur[s].flight_details # "none"
        /\ cur[s].accommodation_details # "none"

\* ---------------------------------------------------------------- C37
IsPrefix(seq, full) ==
    /\ Len(seq) <= Len(full)
    /\ \A i \in 1..Len(seq) : seq[i] = full[i]

\* the completed list of `state` is a prefix of the order in which the
\* supervisor of LangGraphTravelAgent schedules the tasks, and the supervisor
\* does not return its fallback symbol on it
InOrderNoFallback(state) ==
    /\ IsPrefix(state.completed_tasks, <<FLIGHT, ACCOM, ITIN>>)
    /\ route_from_supervisor(state) # "end"

\* C37: in LangGraphTravelAgent, sessions started fresh and driven only by
\* run, continue and resume-with-feedback have in every reachable state (the
\* running state, every returned state, every checkpoint) a completed list
\* that is a prefix of <<flight_search, accommodation_search,
\* itinerary_creation>>, and _route_from_supervisor never returns "end".
C37_CompletedIsPrefix ==
    agent = "lg" =>
        \A s \in Sessions :
            /\ InOrderNoFallback(cur[s])
            /\ \A i \in 1..Len(deltas[s]) : InOrderNoFallback(deltas[s][i].values)
            /\ \A i \in 1..Len(store[s]) : InOrderNoFallback(store[s][i].values)

\* a run in which the accommodation handler failed once has completed all
\* three tasks in order and terminated
C37_Witness ==
    \E s \in Sessions :
        /\ agent = "lg"
        /\ ACCOM \in errd[s]
        /\ Terminated(s)
        /\ cur[s].completed_tasks = <<FLIGHT, ACCOM, ITIN>>
        /\ "end" \notin {route_from_supervisor(store[s][i].values) : i \in 1..Len(store[s])}

\* ---------------------------------------------------------------- C38
\* a stored checkpoint of the ownership model as a reader sees it
Snapshot(h, ck) == [values |-> Contents(h, ck), user_feedback |-> ck.user_feedback]

C38_WitnessInjected ==
    \E s \in Sessions :
        /\ heap.saved[s] # <<>>
        /\ heap.saved[s][Len(heap.saved[s])].user_feedback \in FeedbackValues

\* ---------------------------------------------------------------- C39
\* the pipeline has run to its end
BookingDone == booking.step = "END"

Placeholder(state) ==
    /\ state.accommodation_details.hotel_name = "No Hotel Found"
    /\ state.accommodation_details.price_per_night = 0
    /\ state.accommodation_details.total_price = 0

\* C39: the pipeline returns the "No Hotel Found" placeholder (prices 0)
\* exactly when the booking request raised or returned an empty response; a
\* failed LLM call alone does not discard a successful, non-empty booking
\* response.
C39_PlaceholderIffBookingFailed ==
    BookingDone =>
        (Placeholder(booking.state) <=> booking.post \in {"raises", "empty"})

\* the LLM call raised, the booking request returned a hotel, and the
\* pipeline returned the placeholder
C39_Witness ==
    /\ BookingDone
    /\ booking.llm = "raises"
    /\ booking.post = "hotel"
    /\ booking.state.booking_response = "hotel"
    /\ Placeholder(booking.state)

\* ---------------------------------------------------------------- C40
\* C40: with no thread id supplied, no thread is ever used by the runs of two
\* different requests (the thread ids derived from them differ), and a thread
\* holds the checkpoints of the one request that was run on it.
C40_DefaultThreadsDistinct ==
    \A s \in Sessions :
        /\ Cardinality(threads.asked[s]) <= 1
        /\ \A r1, r2 \in threads.asked[s] :
              default_thread_id(r1) = default_thread_id(r2) => r1 = r2
        /\ store[s] # <<>> => threads.asked[s] = {store[s][1].values.request}

\* two requests with different hashes were run on the same derived thread:
\* the thread holds the checkpoints of the first, the run for the second was
\* refused
C40_Witness ==
    \E s \in Sessions : \E r1, r2 \in Requests :
        /\ r1 # r2
        /\ threads.hash[r1] # threads.hash[r2]
        /\ threads.asked[s] = {r1, r2}
        /\ store[s] # <<>>
        /\ store[s][1].values.request = r1
        /\ result[s].error = "session already started"

=============================================================================
